---- MODULE Spec2Model ----
(***************************************************************************)
(* Barkeep: retrieval of lab-test results from the Metrc API.              *)
(*                                                                         *)
(* Spec      one execution of Worker.run (main.py), down to the single     *)
(*           session.get attempts of make_api_request (metrc_api.py).      *)
(* LiveSpec  Spec with the fairness the request timeout gives.             *)
(* AppSpec   the MetrcApp surface: searches, worker threads, the queued    *)
(*           signals and their handlers, and the export.                   *)
(* AppLiveSpec  AppSpec with the fairness of threads and event loop.       *)
(* FormSpec  the search form alone: license, tag field, search handler.    *)
(* DateSpec  test date and expiration date derived from one result list.   *)
(* CompoundSpec  potency values, aroma list and their export, derived      *)
(*           from one result list.                                         *)
(* ClassifySpec  the potency table, the aroma table and the dates derived  *)
(*           from one result list.                                         *)
(* ParseSpec approval number, description and strain parsed from one       *)
(*           product name.                                                 *)
(***************************************************************************)
EXTENDS Integers, Sequences, FiniteSets, TLC

VARIABLES
    \* ---- one Worker.run (Spec) ----
    license_code,       \* Worker.license_code
    full_label,         \* Worker.full_label
    pc,                 \* where run is: "start", "pkg", "src", "res", "done", "raised"
    attempt_number,     \* tenacity's attempt counter of the request in progress
    exc,                \* the exception that left run ("none" while there is none)
    package_data,       \* get_package_id's locals once the package body is parsed
    page_number,        \* get_test_results
    total_pages,        \* get_test_results
    all_test_results,   \* get_test_results
    data,               \* get_test_results' local `data`: <<>> unbound, <<d>> bound to d
    emitted,            \* the signals run has emitted, in order
    calls,              \* history: one entry per make_api_request call, in call order
    request,            \* history: the attempts of the call that issued the latest
                        \* session.get
    served,             \* history: the bodies of the result pages answered with 200
    \* ---- the MetrcApp surface (AppSpec) ----
    tag_input,          \* tag_input.text(), character by character
    license_combo,      \* license_combo.currentText()
    thread,             \* self.thread / self.worker: the search started last (0: None)
    workers,            \* the Worker objects created so far, with their threads
    queue,              \* the signals queued for the surface's thread, oldest first
    crashed,            \* the process was aborted
    dialog,             \* the title of the message box shown last
    status_label,
    progress_visible,
    export_enabled,
    product_name,
    source_package_label_value,
    full_package_tag,
    license_selected,
    table_results,      \* the list both tables and terpenes_data were populated from
    summary_results,    \* the list test_date, expiration_date and cannabinoid_values
                        \* were computed from
    exported,           \* the content of current_results.json: <<>> while not written
    \* ---- the derived attributes of one result list ----
    result_records,     \* the test_results handed to handle_test_results
    raised,             \* the exception that left the computation ("none": none)
    derived,            \* the steps of the computation that have run
    test_date,          \* self.test_date
    expiration_date,    \* self.expiration_date
    cannabinoid_values, \* self.cannabinoid_values
    terpenes_data,      \* self.terpenes_data
    terpenes_table,     \* the rows of terpenes_table: name and concentration shown
    cannabinoids_table, \* the rows of cannabinoids_table: name and result shown
    export_json,        \* export_data as far as it is derived from the records:
                        \* <<>> before export_results_to_json has run
    \* ---- parse_product_name ----
    product_name_arg,   \* the product_name handed to parse_product_name, as characters
    name_parsed,        \* parse_product_name has run
    approval_number,    \* self.approval_number
    strain_name,        \* self.strain_name
    product_description \* self.product_description

runVars == <<license_code, full_label, pc, attempt_number, exc,
             package_data, page_number, total_pages, all_test_results, data,
             emitted, calls, request, served>>

appVars == <<tag_input, license_combo, thread, workers, queue, crashed, dialog, status_label,
             progress_visible, export_enabled, product_name,
             source_package_label_value, full_package_tag, license_selected,
             table_results, summary_results, exported>>

calcVars == <<result_records, raised, derived, test_date, expiration_date,
              cannabinoid_values, terpenes_data, terpenes_table, cannabinoids_table,
              export_json>>

parseVars == <<product_name_arg, name_parsed, approval_number, strain_name, product_description>>

vars == <<runVars, appVars, calcVars, parseVars>>

-----------------------------------------------------------------------------
(* Bounds of the model *)

MaxPages == 3          \* the largest TotalPages the service reports
MaxSearches == 2       \* the searches that start a worker
MaxRecords == 3        \* the records of a result list whose attributes are derived
MaxNameLen == 4        \* the characters of a product name handed to parse_product_name

(* Program constants *)

MaxAttempts == 5       \* stop_after_attempt(5)

-----------------------------------------------------------------------------
(* Values *)

\* an optional JSON field: <<>> when the key is absent, <<v>> when present
Absent == <<>>
Some(v) == <<v>>
Present(f) == f # <<>>
Val(f) == f[1]

PREFIXES == [MAN000035 |-> "1A40C03000043950000", CUL000032 |-> "1A40C030000332D0000"]

Licenses == DOMAIN PREFIXES

UNIT_WEIGHTS ==
    [MAN000035 |-> {"0.5g", "1g", "2g", "3.5g", "100mg", "250mg", "500mg"},
     CUL000032 |-> {"1g", "3.5g", "7g", "14g", "28g", "448g"}]

\* JSON null, Python None, where a string is expected
None == "<None>"

\* what one session.get + raise_for_status can raise (all requests.RequestException)
TransientKinds == {"ConnectionError", "Timeout"}
HttpErrorKinds == {"HTTP401", "HTTP400"}
FailureKinds == TransientKinds \cup HttpErrorKinds

\* the "Item" member of a package body: missing, null, or an object with a Name
ItemValues ==
    [kind : {"absent", "null"}, Name : {Absent}]
    \cup [kind : {"dict"}, Name : {Absent, Some(""), Some("AB-100: Premium OG Kush")}]

\* bodies of a 200 answer of /packages/v2/{label}
PackageBodies ==
    [kind : {"dict"},
     Id : {Absent, Some(0), Some(7)},
     Item : ItemValues,
     SourcePackageLabel : {Absent, Some(""), Some("1A40C0300004395000011111")},
     SourcePackageId : {Absent, Some(9)}]
    \cup [kind : {"invalid", "list", "scalar"}]

\* bodies of a 200 answer of /packages/v2/{source_package_id}
SourceBodies ==
    [kind : {"dict"}, Label : {Absent, Some(None), Some("1A40C0300004395000022222")}]
    \cup [kind : {"invalid", "list", "scalar"}]

\* the records the service holds on page p (a record is named by its page)
PageArrays(p) == {<<>>, <<p>>}

\* bodies of a 200 answer of /labtests/v2/results for page p
ResultBodies(p) ==
    [kind : {"dict"},
     Data : {Absent} \cup {Some(a) : a \in PageArrays(p)},
     TotalPages : {Absent} \cup {Some(n) : n \in 0..MaxPages}]
    \cup [kind : {"list"}, Data : {Some(a) : a \in PageArrays(p)}]
    \cup [kind : {"invalid", "scalar"}]

NoItem == [kind |-> "dict", Name |-> Absent]

\* package_data: kind and Item of the parsed body, and the locals read from it
NoPackage ==
    [kind |-> "none", Item |-> NoItem,
     package_id |-> Absent, product_name |-> "", source_package_label |-> ""]

NoInfo == [product_name |-> "", source_package_label |-> "", full_label |-> ""]

ErrorSignal(msg, ctx) ==
    [sig |-> "error", msg |-> msg, ctx |-> ctx, results |-> <<>>, info |-> NoInfo]
ResultsSignal(results, info) ==
    [sig |-> "test_results_ready", msg |-> "", ctx |-> "", results |-> results, info |-> info]
FinishedSignal ==
    [sig |-> "finished", msg |-> "", ctx |-> "", results |-> <<>>, info |-> NoInfo]

\* Python truthiness of a str-or-None value and of an int value
TruthyStr(v) == v # "" /\ v # None
TruthyInt(v) == v # 0

-----------------------------------------------------------------------------
(* History of the transport calls *)

\* a make_api_request call as the caller sees it
Call(ep, page, outcome) == [ep |-> ep, page |-> page, outcome |-> outcome]

\* the attempts of call number `call`: how many session.get were issued, how many
\* failed, how the latest ended, and whether one was issued after an HTTP error
\* status or after a success
NoAttempts(call) ==
    [call |-> call, gets |-> 0, failures |-> 0, latest |-> "none",
     afterHttpError |-> FALSE, afterSuccess |-> FALSE]

\* one more session.get of the call in progress, ending with `result`
LogGet(result) ==
    LET r == IF request.call = Len(calls) THEN request ELSE NoAttempts(Len(calls)) IN
    [call |-> r.call,
     gets |-> r.gets + 1,
     failures |-> r.failures + (IF result = "ok" THEN 0 ELSE 1),
     latest |-> result,
     afterHttpError |-> r.afterHttpError \/ r.latest \in HttpErrorKinds,
     afterSuccess |-> r.afterSuccess \/ r.latest = "ok"]

\* the call in progress ends with `outcome`
LogEnd(outcome) == [calls EXCEPT ![Len(calls)].outcome = outcome]

\* `log` with a new call begun
LogCall(log, ep, page) == Append(log, Call(ep, page, "pending"))

-----------------------------------------------------------------------------
(* make_api_request under @retry(wait=..., stop=stop_after_attempt(5)) *)

\* tenacity's default retry predicate, retry_if_exception_type(): any exception
retry_predicate(kind) == kind \in FailureKinds

stop_after_attempt_late(n) == n > MaxAttempts

stop_after_attempt(n) == n >= MaxAttempts

InRequest == pc \in {"pkg", "src", "res"}

\* Worker.run starts: get_package_id calls make_api_request
RunStart ==
    /\ pc = "start"
    /\ pc' = "pkg"
    /\ attempt_number' = 1
    /\ calls' = LogCall(calls, "pkg", 0)
    /\ UNCHANGED <<license_code, full_label, exc, package_data, page_number,
                   total_pages, all_test_results, data, emitted, request, served>>

\* an attempt raises a requests.RequestException (lines 78-80 re-raise it);
\* tenacity sleeps and calls again
AttemptFailsRetry ==
    /\ InRequest
    /\ \E kind \in FailureKinds :
        /\ retry_predicate(kind)
        /\ ~stop_after_attempt(attempt_number)
        /\ request' = LogGet(kind)
    /\ attempt_number' = attempt_number + 1
    /\ UNCHANGED <<license_code, full_label, pc, exc, package_data, page_number,
                   total_pages, all_test_results, data, emitted, calls, served>>

\* the last permitted attempt raises: tenacity raises RetryError (reraise is off),
\* which is no requests.RequestException, so no caller's except clause takes it
\* (lines 99, 156, 197) and it leaves Worker.run
AttemptFailsStop ==
    /\ InRequest
    /\ \E kind \in FailureKinds :
        /\ retry_predicate(kind)
        /\ stop_after_attempt(attempt_number)
        /\ request' = LogGet(kind)
    /\ calls' = LogEnd("RetryError")
    /\ pc' = "raised"
    /\ exc' = "RetryError"
    /\ UNCHANGED <<license_code, full_label, attempt_number, package_data, page_number,
                   total_pages, all_test_results, data, emitted, served>>

-----------------------------------------------------------------------------
(* get_test_results: the pieces of the page loop *)

extend_prepend(acc, d) == d \o acc

extend(acc, d) == acc \o d

next_page(p) == p + 1

loop_condition_strict(p, t) == p < t

total_pages_kept(body, current) ==
    IF body.kind # "dict" THEN 1
    ELSE IF Present(body.TotalPages) THEN Val(body.TotalPages) ELSE current

\* lines 211 and 214: total_pages once `body` is read; the total held before
\* (`current`) plays no part
total_pages_read(body, current) ==
    IF body.kind = "dict" /\ Present(body.TotalPages) THEN Val(body.TotalPages) ELSE 1

loop_condition(p, t) == p <= t

\* Worker.run lines 82-89: both signals, in this order
emit_success(results, pd, label) ==
    <<ResultsSignal(results, [product_name |-> pd.product_name,
                              source_package_label |-> pd.source_package_label,
                              full_label |-> label]),
      FinishedSignal>>

-----------------------------------------------------------------------------
(* get_package_id *)

\* lines 122-137 and Worker.run lines 69-77: the lookup returns; on success run
\* goes on to get_test_results, whose first request is for page 1
PackageReturn(pd, log) ==
    /\ package_data' = pd
    /\ IF Present(pd.package_id) /\ TruthyInt(Val(pd.package_id))
       THEN /\ pc' = "res"
            /\ attempt_number' = 1
            /\ page_number' = 1
            /\ total_pages' = 1
            /\ all_test_results' = <<>>
            /\ calls' = LogCall(log, "res", 1)
            /\ UNCHANGED emitted
       ELSE /\ pc' = "done"
            /\ emitted' = Append(emitted, ErrorSignal("packageId not found", "package details"))
            /\ calls' = log
            /\ UNCHANGED <<attempt_number, page_number, total_pages, all_test_results>>

\* the package request is answered with 200 (lines 74-77), then lines 103-137
PackageResponse ==
    /\ pc = "pkg"
    /\ \E body \in PackageBodies :
        LET log == LogEnd("ok") IN
        CASE body.kind = "invalid" ->
                /\ pc' = "done"
                /\ emitted' = Append(emitted, ErrorSignal("Invalid JSON response", "package details"))
                /\ calls' = log
                /\ package_data' = [NoPackage EXCEPT !.kind = body.kind]
                /\ UNCHANGED <<attempt_number, page_number, total_pages, all_test_results, exc>>
          [] body.kind = "dict" /\ body.Item.kind = "null" ->
                \* line 112: .get on the null Item raises AttributeError
                /\ pc' = "raised"
                /\ exc' = "AttributeError"
                /\ calls' = log
                /\ package_data' = [NoPackage EXCEPT !.kind = body.kind, !.Item = body.Item,
                                                     !.package_id = body.Id]
                /\ UNCHANGED <<attempt_number, page_number, total_pages, all_test_results,
                               emitted>>
          [] body.kind = "dict" /\ body.Item.kind # "null" ->
                LET \* package_data.get("Item", {}): a missing Item reads as {}
                    item == IF body.Item.kind = "absent"
                            THEN [kind |-> "dict", Name |-> Absent] ELSE body.Item
                    name == IF Present(item.Name) THEN Val(item.Name) ELSE ""
                    label == IF Present(body.SourcePackageLabel)
                             THEN Val(body.SourcePackageLabel) ELSE ""
                    pd == [kind |-> body.kind, Item |-> item,
                           package_id |-> body.Id,
                           product_name |-> IF TruthyStr(name) THEN name ELSE full_label,
                           source_package_label |-> label]
                IN  /\ UNCHANGED exc
                    /\ IF ~TruthyStr(label) /\ Present(body.SourcePackageId)
                          /\ TruthyInt(Val(body.SourcePackageId))
                       THEN \* line 120: get_source_package_label is called
                            /\ pc' = "src"
                            /\ attempt_number' = 1
                            /\ package_data' = pd
                            /\ calls' = LogCall(log, "src", 0)
                            /\ UNCHANGED <<emitted, page_number, total_pages,
                                           all_test_results>>
                       ELSE PackageReturn([pd EXCEPT !.source_package_label =
                                               IF TruthyStr(label) THEN label ELSE "N/A"], log)
          [] OTHER ->
                /\ pc' = "done"
                /\ emitted' = Append(emitted, ErrorSignal("Unexpected JSON structure", "package details"))
                /\ calls' = log
                /\ package_data' = [NoPackage EXCEPT !.kind = body.kind]
                /\ UNCHANGED <<attempt_number, page_number, total_pages, all_test_results, exc>>
    /\ request' = LogGet("ok")
    /\ UNCHANGED <<license_code, full_label, data, served>>

\* get_source_package_label: the source request is answered with 200, lines 160-167,
\* then get_package_id goes on at line 122
SourceResponse ==
    /\ pc = "src"
    /\ \E body \in SourceBodies :
        LET log == LogEnd("ok") IN
        IF body.kind \in {"list", "scalar"}
        THEN \* data.get on a value that is no dict: AttributeError, not ValueError
             /\ pc' = "raised"
             /\ exc' = "AttributeError"
             /\ calls' = log
             /\ UNCHANGED <<attempt_number, package_data, page_number, total_pages,
                            all_test_results, emitted>>
        ELSE LET label == IF body.kind = "invalid" THEN "N/A"
                          ELSE IF Present(body.Label) THEN Val(body.Label) ELSE "N/A"
             IN  /\ PackageReturn([package_data EXCEPT !.source_package_label =
                                      IF TruthyStr(label) THEN label ELSE "N/A"], log)
                 /\ UNCHANGED exc
    /\ request' = LogGet("ok")
    /\ UNCHANGED <<license_code, full_label, data, served>>

-----------------------------------------------------------------------------
(* get_test_results *)

\* the request for page page_number is answered with 200, then lines 201-223 and,
\* when the loop ends, Worker.run lines 78-89
ResultsResponse ==
    /\ pc = "res"
    /\ \E body \in ResultBodies(page_number) :
        LET log == LogEnd("ok") IN
        /\ served' = Append(served, body)
        /\ CASE body.kind = "invalid" ->
                /\ pc' = "done"
                /\ emitted' = Append(emitted, ErrorSignal("Invalid JSON response", "test results"))
                /\ calls' = log
                /\ UNCHANGED <<attempt_number, exc, page_number, total_pages,
                               all_test_results, data>>
             [] body.kind = "scalar" ->
                /\ pc' = "done"
                /\ emitted' = Append(emitted, ErrorSignal("Unexpected JSON structure", "test results"))
                /\ calls' = log
                /\ UNCHANGED <<attempt_number, exc, page_number, total_pages,
                               all_test_results, data>>
             [] OTHER ->
                LET isDict == body.kind = "dict"
                    d == IF Present(body.Data) THEN Val(body.Data) ELSE <<>>
                    acc == extend(all_test_results, d)
                    total == total_pages_read(body, total_pages)
                    bound == IF isDict THEN Some(d) ELSE data
                IN  /\ all_test_results' = acc
                    /\ total_pages' = total
                    /\ data' = bound
                    /\ IF ~Present(bound)
                       THEN \* line 219: len(data) with `data` never assigned
                            /\ pc' = "raised"
                            /\ exc' = "UnboundLocalError"
                            /\ calls' = log
                            /\ UNCHANGED <<attempt_number, page_number, emitted>>
                       ELSE /\ page_number' = next_page(page_number)
                            /\ UNCHANGED exc
                            /\ IF loop_condition(next_page(page_number), total)
                               THEN /\ pc' = "res"
                                    /\ attempt_number' = 1
                                    /\ calls' = LogCall(log, "res", next_page(page_number))
                                    /\ UNCHANGED emitted
                               ELSE /\ pc' = "done"
                                    /\ emitted' = emitted \o emit_success(acc, package_data, full_label)
                                    /\ calls' = log
                                    /\ UNCHANGED attempt_number
    /\ request' = LogGet("ok")
    /\ UNCHANGED <<license_code, full_label, package_data>>

-----------------------------------------------------------------------------
(* The surface: MetrcApp *)

Digits == {"0", "1", "2", "3", "4", "5", "6", "7", "8", "9"}
Whitespace == {" "}

\* what the user may have typed into tag_input, character by character
TagInputs == {<<>>, <<"7">>, <<" ", "7", " ">>, <<"1", "a">>, <<" ">>}

RECURSIVE lstrip(_)
lstrip(cs) == IF cs # <<>> /\ Head(cs) \in Whitespace THEN lstrip(Tail(cs)) ELSE cs

RECURSIVE rstrip(_)
rstrip(cs) ==
    IF cs # <<>> /\ cs[Len(cs)] \in Whitespace THEN rstrip(SubSeq(cs, 1, Len(cs) - 1)) ELSE cs

\* str.strip()
strip(cs) == rstrip(lstrip(cs))

isdigit_nonempty(cs) == cs # <<>>

\* str.isdigit()
isdigit(cs) == cs # <<>> /\ \A i \in 1..Len(cs) : cs[i] \in Digits

\* the str of a character sequence
RECURSIVE Str(_)
Str(cs) == IF cs = <<>> THEN "" ELSE Head(cs) \o Str(Tail(cs))

\* the labels a valid search can hand to a worker
SearchLabels(lic) == {PREFIXES[lic] \o Str(strip(t)) : t \in {u \in TagInputs : isdigit(strip(u))}}

\* the records the service holds for a package, and the result lists it may answer
RecordOf(label, n) == [package |-> label, n |-> n]
ResultLists(label) == {<<>>, <<RecordOf(label, 1)>>}

\* what a lookup that succeeded can hand to run
PackageInfos(label) ==
    [product_name : {label, "AB-100: Premium OG Kush"},
     source_package_label : {"N/A", "1A40C0300004395000011111", "1A40C0300004395000022222"}]

\* the package the service holds under a label: the packages of MAN000035 carry an
\* item name and a source label, those of CUL000032 neither
ServiceInfos(label) ==
    IF label \in SearchLabels("MAN000035")
    THEN {[product_name |-> "AB-100: Premium OG Kush",
           source_package_label |-> "1A40C0300004395000011111"]}
    ELSE {[product_name |-> label, source_package_label |-> "N/A"]}

PackageErrors == {"Invalid JSON response", "Unexpected JSON structure", "packageId not found"}
ResultErrors == {"Invalid JSON response", "Unexpected JSON structure"}
RunExceptions == {"RetryError", "AttributeError", "UnboundLocalError"}

\* the ways one Worker.run can end: the signals it emits and the exception that
\* leaves it (RunOutcomeSound ties this to the steps of Spec)
RunOutcomes(label, lists, infos) ==
    [emitted : {<<ErrorSignal(m, "package details")>> : m \in PackageErrors}
               \cup {<<ErrorSignal(m, "test results")>> : m \in ResultErrors}
               \cup {emit_success(r, pd, label) : r \in lists, pd \in infos},
     exc : {"none"}]
    \cup [emitted : {<<>>}, exc : RunExceptions]

NewWorker(lic, label) ==
    [license_code |-> lic, full_label |-> label, state |-> "running",
     thread_running |-> TRUE, emitted |-> <<>>]

\* a QThread that is dropped (self.thread is rebound) while it still runs
DroppedWhileRunning == thread # 0 /\ workers[thread].thread_running

\* the user picks a license
SelectLicense ==
    /\ ~crashed
    /\ \E lic \in Licenses : license_combo' = lic
    /\ UNCHANGED <<tag_input, thread, workers, queue, crashed, dialog, status_label,
                   progress_visible, export_enabled, product_name,
                   source_package_label_value, full_package_tag, license_selected,
                   table_results, summary_results, exported>>

\* search_test_results, lines 293-326
search_test_results ==
    /\ ~crashed
    /\ \E text \in TagInputs :
        \* the user types `text` and presses return (or the search button)
        /\ tag_input' = text
        /\ LET license == license_combo
               partial_tag == strip(text)
           IN  IF partial_tag = <<>> \/ ~isdigit(partial_tag)
               THEN /\ dialog' = "Input Error"
                    /\ UNCHANGED <<thread, workers, crashed, status_label, progress_visible>>
               ELSE IF license \notin DOMAIN PREFIXES
               THEN /\ dialog' = "License Error"
                    /\ UNCHANGED <<thread, workers, crashed, status_label, progress_visible>>
               ELSE /\ Len(workers) < MaxSearches
                    /\ status_label' = "Fetching package details and test results..."
                    /\ progress_visible' = TRUE
                    /\ workers' = Append(workers, NewWorker(license, PREFIXES[license] \o Str(partial_tag)))
                    /\ thread' = Len(workers) + 1
                    \* destroying a QThread that still runs is fatal in Qt; whether the
                    \* wrapper is destroyed at the rebinding is up to the binding
                    /\ crashed' \in (IF DroppedWhileRunning THEN BOOLEAN ELSE {FALSE})
                    /\ UNCHANGED dialog
    /\ UNCHANGED <<license_combo, queue, export_enabled, product_name,
                   source_package_label_value, full_package_tag, license_selected,
                   table_results, summary_results, exported>>

\* Worker.run of worker w, from thread.started to its return, in its own thread;
\* its signals are queued for the surface's thread
WorkerRun(w) ==
    /\ ~crashed
    /\ workers[w].state = "running"
    /\ \E out \in RunOutcomes(workers[w].full_label, ResultLists(workers[w].full_label),
                             ServiceInfos(workers[w].full_label)) :
        /\ workers' = [workers EXCEPT ![w].state = IF out.exc = "none" THEN "returned" ELSE "raised",
                                      ![w].emitted = out.emitted]
        /\ queue' = queue \o [i \in 1..Len(out.emitted) |-> [from |-> w, signal |-> out.emitted[i]]]
        \* an exception that leaves a slot is printed, or aborts the process (PyQt >= 5.5)
        /\ crashed' \in (IF out.exc = "none" THEN {FALSE} ELSE BOOLEAN)
    /\ UNCHANGED <<tag_input, license_combo, thread, dialog, status_label, progress_visible,
                   export_enabled, product_name, source_package_label_value,
                   full_package_tag, license_selected, table_results, summary_results, exported>>

\* self.thread.quit(); self.thread.wait(): returns once the run of the thread's
\* worker has returned
ThreadJoined == workers[thread].state # "running"
quit_and_wait == [workers EXCEPT ![thread].thread_running = FALSE]

\* handle_error, lines 328-338
handle_error ==
    /\ ~crashed
    /\ queue # <<>>
    /\ Head(queue).signal.sig = "error"
    /\ ThreadJoined
    /\ LET error_message == Head(queue).signal.msg
           context == Head(queue).signal.ctx
       IN  /\ progress_visible' = FALSE
           /\ dialog' = IF error_message = "Unauthorized" THEN "Authentication Error"
                        ELSE IF error_message = "packageId not found" THEN "Not Found"
                        ELSE "API Error"
           /\ status_label' = "Error fetching " \o context \o "."
    /\ workers' = quit_and_wait
    /\ queue' = Tail(queue)
    /\ UNCHANGED <<tag_input, license_combo, thread, crashed, export_enabled, product_name,
                   source_package_label_value, full_package_tag, license_selected,
                   table_results, summary_results, exported>>

\* handle_test_results, lines 340-368
handle_test_results ==
    /\ ~crashed
    /\ queue # <<>>
    /\ Head(queue).signal.sig = "test_results_ready"
    /\ LET test_results == Head(queue).signal.results
           package_info == Head(queue).signal.info
       IN  IF test_results = <<>>
           THEN /\ dialog' = "No Results"
                /\ status_label' = "No test results found."
                /\ table_results' = <<>>
                /\ export_enabled' = FALSE
                /\ UNCHANGED <<product_name, source_package_label_value, full_package_tag,
                               license_selected, summary_results>>
           ELSE /\ table_results' = test_results
                /\ status_label' = "Test results fetched successfully."
                /\ product_name' = package_info.product_name
                /\ source_package_label_value' = package_info.source_package_label
                /\ summary_results' = test_results
                /\ export_enabled' = TRUE
                /\ full_package_tag' = package_info.full_label
                /\ license_selected' = license_combo
                /\ UNCHANGED dialog
    /\ queue' = Tail(queue)
    /\ UNCHANGED <<tag_input, license_combo, thread, workers, crashed, progress_visible,
                   exported>>

\* worker_done, lines 393-396
worker_done ==
    /\ ~crashed
    /\ queue # <<>>
    /\ Head(queue).signal.sig = "finished"
    /\ ThreadJoined
    /\ progress_visible' = FALSE
    /\ workers' = quit_and_wait
    /\ queue' = Tail(queue)
    /\ UNCHANGED <<tag_input, license_combo, thread, crashed, dialog, status_label, export_enabled,
                   product_name, source_package_label_value, full_package_tag,
                   license_selected, table_results, summary_results, exported>>

\* what export_results_to_json puts into export_data, lines 600-655: the stored
\* fields, and the lists the derived fields were computed from
export_data(unit_weight) ==
    [ProductName |-> product_name,
     FullPackageTag |-> full_package_tag,
     LicenseSelected |-> license_selected,
     SourcePackage |-> source_package_label_value,
     UnitWeight |-> unit_weight,
     summary |-> summary_results,
     Terpenes |-> table_results]

\* handle_export_click, lines 398-418, with the dialog accepted (a dialog that is
\* cancelled changes nothing); the button is clickable only while enabled
handle_export_click ==
    /\ ~crashed
    /\ export_enabled
    /\ LET license_code_now == license_combo IN
       \* the weight the user picks in UnitWeightDialog, lines 399-404
       \E unit_weight \in UNIT_WEIGHTS[license_code_now] :
           exported' = Some(export_data(unit_weight))
    /\ dialog' = "Export Complete"
    /\ UNCHANGED <<tag_input, license_combo, thread, workers, queue, crashed, status_label,
                   progress_visible, export_enabled, product_name,
                   source_package_label_value, full_package_tag, license_selected,
                   table_results, summary_results>>

-----------------------------------------------------------------------------
(* Strings and numbers of the derived attributes *)

\* a JSON member of a record as Python sees it: t is "absent" (no such key),
\* "null" (None), "str" (s holds the characters), "int" or "float" (v holds the
\* number in units of 1/Scale)
Scale == 100000
Member(t, s, v) == [t |-> t, s |-> s, v |-> v]
NoMember == Member("absent", <<>>, 0)
Null == Member("null", <<>>, 0)
StrOf(cs) == Member("str", cs, 0)
IntOf(n) == Member("int", <<>>, n * Scale)
FloatOf(v) == Member("float", <<>>, v)

DigitChars == <<"0", "1", "2", "3", "4", "5", "6", "7", "8", "9">>

\* the value of a digit character
DigitVal(c) == CHOOSE d \in 0..9 : DigitChars[d + 1] = c

\* int() of a sequence of digit characters
RECURSIVE int(_)
int(cs) == IF cs = <<>> THEN 0 ELSE 10 * int(SubSeq(cs, 1, Len(cs) - 1)) + DigitVal(cs[Len(cs)])

\* str() of a natural number, as characters
RECURSIVE Dec(_)
Dec(n) == IF n < 10 THEN <<DigitChars[n + 1]>> ELSE Append(Dec(n \div 10), DigitChars[(n % 10) + 1])

\* n as at least w digits, zero-padded (%m, %d, %Y of strftime)
RECURSIVE Pad(_, _)
Pad(cs, w) == IF Len(cs) >= w THEN cs ELSE Pad(<<"0">> \o cs, w)

AllDigitChars(cs) == \A i \in 1..Len(cs) : cs[i] \in Digits

\* the position of the first c in cs, 0 when there is none
RECURSIVE Find(_, _)
Find(cs, c) ==
    IF cs = <<>> THEN 0
    ELSE IF Head(cs) = c THEN 1
    ELSE LET k == Find(Tail(cs), c) IN IF k = 0 THEN 0 ELSE k + 1

Pow10(k) == CASE k = 0 -> 1 [] k = 1 -> 10 [] k = 2 -> 100 [] k = 3 -> 1000
              [] k = 4 -> 10000 [] OTHER -> 100000

\* float(s) for the decimal notations [sign] digits [. digits] with surrounding
\* whitespace allowed and at most five decimals; anything else is a ValueError
\* (ok = FALSE). v is the value in units of 1/Scale.
float(cs) ==
    LET t == strip(cs)
        neg == t # <<>> /\ Head(t) = "-"
        u == IF t # <<>> /\ Head(t) \in {"-", "+"} THEN Tail(t) ELSE t
        dot == Find(u, ".")
        ip == IF dot = 0 THEN u ELSE SubSeq(u, 1, dot - 1)
        fp == IF dot = 0 THEN <<>> ELSE SubSeq(u, dot + 1, Len(u))
        ok == /\ AllDigitChars(ip) /\ AllDigitChars(fp)
              /\ Len(ip) + Len(fp) > 0
              /\ Len(fp) <= 5
        mag == int(ip) * Scale + int(fp) * Pow10(5 - Len(fp))
    IN  [ok |-> ok, v |-> IF ~ok THEN 0 ELSE IF neg THEN 0 - mag ELSE mag]

\* round(x, 2) of a float, in hundredths; ties go to the even hundredth (the
\* inputs of the model hold no tie)
round2(v) ==
    LET mag == IF v < 0 THEN 0 - v ELSE v
        q == mag \div 1000
        r == mag % 1000
        h == IF r > 500 \/ (r = 500 /\ q % 2 = 1) THEN q + 1 ELSE q
    IN  IF v < 0 THEN 0 - h ELSE h

\* cs without its trailing zeros, but for one character
RECURSIVE TrimZeros(_)
TrimZeros(cs) ==
    IF Len(cs) > 1 /\ cs[Len(cs)] = "0" THEN TrimZeros(SubSeq(cs, 1, Len(cs) - 1)) ELSE cs

\* str() of the float v/Scale: the shortest decimal, with at least one decimal
\* (the model holds no float below 0.0001, which Python writes with an exponent)
Repr(v) ==
    LET mag == IF v < 0 THEN 0 - v ELSE v IN
    (IF v < 0 THEN <<"-">> ELSE <<>>)
        \o Dec(mag \div Scale) \o <<".">> \o TrimZeros(Pad(Dec(mag % Scale), 5))

\* str() of the float h/100
FloatStr(h) == Repr(h * 1000)

\* str() of the int n
IntStr(n) == IF n < 0 THEN <<"-">> \o Dec(0 - n) ELSE Dec(n)

\* f"{round(x, 2)}" for the number member x: round of an int is that int
RoundStr(x) == IF x.t = "int" THEN IntStr(x.v \div Scale) ELSE FloatStr(round2(x.v))

\* str.lower() as far as "n/a" is concerned
lower(cs) == [i \in 1..Len(cs) |-> CASE cs[i] = "N" -> "n" [] cs[i] = "A" -> "a" [] OTHER -> cs[i]]

NA == <<"N", "/", "A">>

-----------------------------------------------------------------------------
(* extract_test_date, add_one_year *)

\* cs split at every "-"
RECURSIVE SplitDash(_)
SplitDash(cs) ==
    LET k == Find(cs, "-") IN
    IF k = 0 THEN <<cs>> ELSE <<SubSeq(cs, 1, k - 1)>> \o SplitDash(SubSeq(cs, k + 1, Len(cs)))

IsLeap(y) == (y % 4 = 0 /\ y % 100 # 0) \/ y % 400 = 0

DaysIn(y, m) ==
    CASE m \in {4, 6, 9, 11} -> 30
      [] m = 2 -> IF IsLeap(y) THEN 29 ELSE 28
      [] OTHER -> 31

\* datetime.strptime(date_str, "%Y-%m-%d"): ok = FALSE stands for ValueError
strptime(cs) ==
    LET parts == SplitDash(cs)
        shaped == /\ Len(parts) = 3
                  /\ Len(parts[1]) = 4 /\ AllDigitChars(parts[1])
                  /\ Len(parts[2]) \in {1, 2} /\ AllDigitChars(parts[2])
                  /\ Len(parts[3]) \in {1, 2} /\ AllDigitChars(parts[3])
        y == IF shaped THEN int(parts[1]) ELSE 0
        m == IF shaped THEN int(parts[2]) ELSE 0
        d == IF shaped THEN int(parts[3]) ELSE 0
    IN  [ok |-> shaped /\ y >= 1 /\ m \in 1..12 /\ d >= 1 /\ d <= DaysIn(y, m),
         y |-> y, m |-> m, d |-> d]

\* date_obj + relativedelta(years=1): the day is cut to the end of the month
plus_one_year(date) ==
    [y |-> date.y + 1, m |-> date.m,
     d |-> IF date.d > DaysIn(date.y + 1, date.m) THEN DaysIn(date.y + 1, date.m) ELSE date.d]

\* new_date.strftime("%m/%d/%Y")
strftime(date) ==
    Pad(Dec(date.m), 2) \o <<"/">> \o Pad(Dec(date.d), 2) \o <<"/">> \o Pad(Dec(date.y), 4)

\* add_one_year, lines 434-437, of a str that strptime parses
add_one_year(date_str) == StrOf(strftime(plus_one_year(strptime(date_str))))

\* extract_test_date, lines 423-432: [exc, value]; exc is the exception that leaves
\* the function
RECURSIVE extract_test_date(_)
extract_test_date(rs) ==
    IF rs = <<>> THEN [exc |-> "none", value |-> StrOf(NA)]
    ELSE LET r == Head(rs) IN
         IF r.TestPerformedDate.t # "absent" /\ r.TestPerformedDate # StrOf(NA)
         THEN \* strptime of what is no str is a TypeError
              IF r.TestPerformedDate.t # "str"
              THEN [exc |-> "TypeError", value |-> r.TestPerformedDate]
              ELSE IF strptime(r.TestPerformedDate.s).ok
              THEN [exc |-> "none", value |-> r.TestPerformedDate]
              ELSE [exc |-> "none", value |-> StrOf(NA)]
         ELSE extract_test_date(Tail(rs))

\* a record of a result list
Record(name, level, date) ==
    [TestTypeName |-> name, TestResultLevel |-> level, TestPerformedDate |-> date]

\* the result lists drawn from the records `rset`
Lists(rset) == UNION {[1..n -> rset] : n \in 0..MaxRecords}

\* TestPerformedDate as the service may send it
DateMembers ==
    {NoMember, Null, StrOf(NA),
     StrOf(<<"2", "0", "2", "4", "-", "0", "3", "-", "1", "0">>),
     StrOf(<<"2", "0", "2", "4", "-", "0", "2", "-", "2", "9">>),
     StrOf(<<"2", "0", "2", "4", "-", "3", "-", "1">>),
     StrOf(<<"2", "0", "2", "4", "-", "1", "3", "-", "0", "1">>),
     StrOf(<<"0", "3", "/", "1", "0", "/", "2", "0", "2", "4">>)}

DateRecords == {Record(<<"T", "H", "C", "A">>, StrOf(<<"1">>), d) : d \in DateMembers}

INDIVIDUAL_CANNABINOIDS ==
    {<<"Δ", "9", "-", "T", "H", "C">>,
     <<"T", "H", "C", "A">>,
     <<"C", "B", "D">>,
     <<"C", "B", "D", "A">>,
     <<"C", "B", "N">>,
     <<"T", "H", "C", "V">>,
     <<"C", "B", "D", "V">>,
     <<"Δ", "8", "-", "T", "H", "C">>}

ZeroStr == <<"0", ".", "0">>

\* the derived attributes as MetrcApp.__init__ leaves them, lines 226-240
Underived ==
    /\ raised = "none"
    /\ derived = {}
    /\ test_date = StrOf(NA)
    /\ expiration_date = StrOf(NA)
    /\ cannabinoid_values = [c \in INDIVIDUAL_CANNABINOIDS |-> ZeroStr]
    /\ terpenes_data = <<>>
    /\ terpenes_table = <<>>
    /\ cannabinoids_table = <<>>
    /\ export_json = <<>>

\* handle_test_results, lines 354-357
derive_dates ==
    /\ raised = "none"
    /\ "dates" \notin derived
    /\ LET found == extract_test_date(result_records) IN
       IF found.exc # "none"
       THEN /\ raised' = found.exc
            /\ UNCHANGED <<derived, test_date, expiration_date>>
       ELSE /\ test_date' = found.value
            /\ expiration_date' = IF found.value # StrOf(NA)
                                  THEN add_one_year(found.value.s) ELSE StrOf(NA)
            /\ derived' = derived \cup {"dates"}
            /\ UNCHANGED raised
    /\ UNCHANGED <<result_records, cannabinoid_values, terpenes_data, terpenes_table,
                   cannabinoids_table, export_json>>

-----------------------------------------------------------------------------
(* extract_cannabinoid_values, populate_terpenes_table, export_results_to_json *)

TERPENE_TEST_TYPES ==
    {<<"M", "y", "r", "c", "e", "n", "e">>,
     <<"B", "e", "t", "a", "-", "C", "a", "r", "y", "o", "p", "h", "y", "l", "l", "e", "n", "e">>,
     <<"A", "l", "p", "h", "a", "-", "P", "i", "n", "e", "n", "e">>,
     <<"B", "e", "t", "a", "-", "P", "i", "n", "e", "n", "e">>,
     <<"L", "i", "m", "o", "n", "e", "n", "e">>,
     <<"L", "i", "n", "a", "l", "o", "o", "l">>,
     <<"T", "e", "r", "p", "i", "n", "o", "l", "e", "n", "e">>,
     <<"H", "u", "m", "u", "l", "e", "n", "e">>,
     <<"O", "c", "i", "m", "e", "n", "e">>,
     <<"G", "e", "r", "a", "n", "i", "o", "l">>,
     <<"E", "u", "c", "a", "l", "y", "p", "t", "o", "l">>,
     <<"C", "a", "m", "p", "h", "e", "n", "e">>,
     <<"B", "o", "r", "n", "e", "o", "l">>,
     <<"D", "e", "l", "t", "a", "-", "3", "-", "C", "a", "r", "e", "n", "e">>,
     <<"T", "e", "r", "p", "i", "n", "e", "o", "l">>,
     <<"F", "a", "r", "n", "e", "s", "e", "n", "e">>,
     <<"G", "u", "a", "i", "o", "l">>,
     <<"I", "s", "o", "p", "u", "l", "e", "g", "o", "l">>,
     <<"N", "e", "r", "o", "l", "i", "d", "o", "l">>}

\* sub in cs: sub occurs in cs
Contains(cs, sub) ==
    \E i \in 1..(Len(cs) - Len(sub) + 1) : SubSeq(cs, i, i + Len(sub) - 1) = sub

\* extract_units, lines 468-473: the first parenthesized group of the name
extract_units(test_type) ==
    LET open == Find(test_type, "(")
        rest == SubSeq(test_type, open + 1, Len(test_type))
        close == Find(rest, ")")
    IN  IF open = 0 \/ close = 0 THEN <<>> ELSE SubSeq(rest, 1, close - 1)

positive_or_zero(v) == v >= 0

\* value > 0, lines 452 and 459
positive(v) == v > 0

\* r.get("TestResultLevel", "N/A")
level_or_na(r) == IF r.TestResultLevel.t = "absent" THEN StrOf(NA) ELSE r.TestResultLevel

\* the body of the loop of extract_cannabinoid_values, lines 443-464
cannabinoid_step(values, r) ==
    LET test_type == r.TestTypeName
        result_level == level_or_na(r)
        units == extract_units(test_type)
        parsed == float(result_level.s)
    IN  IF test_type \notin INDIVIDUAL_CANNABINOIDS THEN values
        ELSE IF result_level.t = "str"
        THEN IF lower(result_level.s) = lower(NA) THEN values
             ELSE IF ~parsed.ok THEN [values EXCEPT ![test_type] = result_level.s]
             ELSE IF positive(parsed.v)
             THEN [values EXCEPT ![test_type] = FloatStr(round2(parsed.v)) \o units]
             ELSE [values EXCEPT ![test_type] = ZeroStr]
        ELSE IF result_level.t \in {"int", "float"}
        THEN IF positive(result_level.v)
             THEN [values EXCEPT ![test_type] = RoundStr(result_level) \o units]
             ELSE [values EXCEPT ![test_type] = ZeroStr]
        ELSE [values EXCEPT ![test_type] = ZeroStr]

\* extract_cannabinoid_values, lines 439-466
RECURSIVE cannabinoid_fold(_, _)
cannabinoid_fold(values, rs) ==
    IF rs = <<>> THEN values ELSE cannabinoid_fold(cannabinoid_step(values, Head(rs)), Tail(rs))

extract_cannabinoid_values(rs) ==
    cannabinoid_fold([c \in INDIVIDUAL_CANNABINOIDS |-> ZeroStr], rs)

\* lines 511-514: the records whose name holds one of TERPENE_TEST_TYPES
is_terpene(r) == \E tt \in TERPENE_TEST_TYPES : Contains(r.TestTypeName, tt)

keep_unless_na(concentration) ==
    concentration.t \in {"int", "float"}
    \/ (concentration.t = "str" /\ lower(concentration.s) # lower(NA))

\* lines 518-530: whether a record with this concentration goes to final_results
keep_concentration(concentration) ==
    \/ /\ concentration.t = "str"
       /\ lower(concentration.s) # lower(NA)
       /\ ~(float(concentration.s).ok /\ float(concentration.s).v = 0)
    \/ /\ concentration.t \in {"int", "float"}
       /\ concentration.v # 0

\* str(x) of a member that is a str or a number
str(x) == CASE x.t = "str" -> x.s [] x.t = "int" -> IntStr(x.v \div Scale) [] OTHER -> Repr(x.v)

\* s.replace('.', '', 1)
without_first_dot(cs) ==
    LET k == Find(cs, ".") IN
    IF k = 0 THEN cs ELSE SubSeq(cs, 1, k - 1) \o SubSeq(cs, k + 1, Len(cs))

\* the sort key of line 540
sort_key(r) ==
    LET x == r.TestResultLevel IN
    IF x.t \in {"int", "float", "str"} /\ isdigit(without_first_dot(str(x)))
    THEN (IF x.t = "str" THEN float(x.s).v ELSE x.v)
    ELSE 0

\* the keyed element e put into the list es, which is sorted by descending key:
\* behind the elements whose key is not smaller (sorted(..., reverse=True) is stable)
RECURSIVE insert_desc(_, _)
insert_desc(es, e) ==
    IF es = <<>> THEN <<e>>
    ELSE IF Head(es).key >= e.key THEN <<Head(es)>> \o insert_desc(Tail(es), e)
    ELSE <<e>> \o es

RECURSIVE sort_keyed(_)
sort_keyed(es) ==
    IF es = <<>> THEN <<>>
    ELSE insert_desc(sort_keyed(SubSeq(es, 1, Len(es) - 1)), es[Len(es)])

\* sorted(es, key=..., reverse=True) with keys[i] the key of es[i]
sorted_desc(es, keys) ==
    LET out == sort_keyed([i \in 1..Len(es) |-> [key |-> keys[i], item |-> es[i]]])
    IN  [i \in 1..Len(out) |-> out[i].item]

Percent == <<"%">>

\* concentration_display, lines 563-576 and 631-643
concentration_display(concentration) ==
    IF concentration.t = "str"
    THEN IF lower(concentration.s) # lower(NA) /\ float(concentration.s).ok
         THEN FloatStr(round2(float(concentration.s).v)) \o Percent
         ELSE concentration.s
    ELSE IF concentration.t \in {"int", "float"}
    THEN RoundStr(concentration) \o Percent
    ELSE NA

\* the terpenes_data that populate_terpenes_table stores, lines 511-546
terpenes_sorted(rs) ==
    LET final_results ==
            SelectSeq(rs, LAMBDA r : is_terpene(r) /\ keep_concentration(level_or_na(r)))
    IN  sorted_desc(final_results,
                    [i \in 1..Len(final_results) |-> sort_key(final_results[i])])

\* handle_test_results, line 349: populate_terpenes_table, lines 509-583; of a row
\* the concentration column is kept
populate_terpenes_table ==
    /\ raised = "none"
    /\ derived \subseteq {"cannabinoids_table"}
    /\ terpenes_data' = terpenes_sorted(result_records)
    /\ terpenes_table' = [i \in 1..Len(terpenes_data') |->
                            concentration_display(level_or_na(terpenes_data'[i]))]
    /\ derived' = derived \cup {"terpenes"}
    /\ UNCHANGED <<result_records, raised, test_date, expiration_date, cannabinoid_values,
                   cannabinoids_table, export_json>>

\* handle_test_results, line 364
derive_cannabinoid_values ==
    /\ raised = "none"
    /\ derived = {"terpenes"}
    /\ cannabinoid_values' = extract_cannabinoid_values(result_records)
    /\ derived' = derived \cup {"cannabinoids"}
    /\ UNCHANGED <<result_records, raised, test_date, expiration_date, terpenes_data,
                   terpenes_table, cannabinoids_table, export_json>>

\* s.replace('%', '')
without_percent(cs) == SelectSeq(cs, LAMBDA c : c # "%")

\* the sort key of line 652; ok = FALSE stands for the ValueError of float()
export_key(conc) == IF conc # NA THEN float(without_percent(conc)) ELSE [ok |-> TRUE, v |-> 0]

\* lines 625-649: the Concentration of the entries of terpenes_list, before the sort
terpene_entries ==
    SelectSeq([i \in 1..Len(terpenes_data) |->
                    concentration_display(level_or_na(terpenes_data[i]))],
              LAMBDA conc : conc # NA)

\* export_results_to_json, lines 617-655: the Cannabinoids mapping and, of the
\* Terpenes entries, their Concentration ("N/A" when terpenes_data is empty)
export_results_to_json ==
    /\ raised = "none"
    /\ derived = {"terpenes", "cannabinoids"}
    /\ IF terpenes_data # <<>>
          /\ \E i \in 1..Len(terpene_entries) : ~export_key(terpene_entries[i]).ok
       THEN \* line 652: float() of a Concentration that is no number
            /\ raised' = "ValueError"
            /\ UNCHANGED <<derived, export_json>>
       ELSE /\ export_json' =
                Some([Cannabinoids |-> [c \in INDIVIDUAL_CANNABINOIDS |-> cannabinoid_values[c]],
                      Terpenes |-> IF terpenes_data # <<>>
                                   THEN sorted_desc(terpene_entries,
                                            [i \in 1..Len(terpene_entries) |->
                                                export_key(terpene_entries[i]).v])
                                   ELSE <<NA>>])
            /\ derived' = derived \cup {"export"}
            /\ UNCHANGED raised
    /\ UNCHANGED <<result_records, test_date, expiration_date, cannabinoid_values,
                   terpenes_data, terpenes_table, cannabinoids_table>>

\* TestResultLevel as the service may send it
LevelMembers ==
    {NoMember, Null, StrOf(NA),
     StrOf(<<"0">>),
     StrOf(<<"3", ".", "1", "4", "1", "5", "9">>),
     StrOf(<<"-", "1", ".", "5">>),
     StrOf(<<"N", "D">>),
     IntOf(0),
     FloatOf(1250000)}

\* records of a cannabinoid and of a terpene
CompoundRecords ==
    {Record(name, level, StrOf(<<"2", "0", "2", "4", "-", "0", "3", "-", "1", "0">>)) :
        name \in {<<"T", "H", "C", "A">>, <<"L", "i", "m", "o", "n", "e", "n", "e">>}, level \in LevelMembers}

-----------------------------------------------------------------------------
(* populate_cannabinoids_table, simplify_cannabinoid_name *)

CANNABINOID_TEST_TYPES ==
    {<<"Δ", "9", "-", "T", "H", "C">>,
     <<"T", "H", "C", "A">>,
     <<"C", "B", "D">>,
     <<"C", "B", "D", "A">>,
     <<"T", "O", "T", "A", "L", " ", "T", "H", "C">>,
     <<"C", "B", "N">>,
     <<"T", "H", "C", "V">>,
     <<"C", "B", "D", "V">>,
     <<"Δ", "8", "-", "T", "H", "C">>,
     <<"T", "O", "T", "A", "L", " ", "C", "B", "D">>,
     <<"T", "o", "t", "a", "l", " ", "C", "B", "D", " ", "(", "m", "g", "/", "s", "e", "r",
       "v", "i", "n", "g", ")", " ", "M", "a", "n", "d", "a", "t", "o", "r", "y", " ", "C",
       "a", "n", "n", "a", "b", "i", "n", "o", "i", "d", " ", "%", " ", "a", "n", "d", " ",
       "T", "o", "t", "a", "l", "s">>,
     <<"T", "o", "t", "a", "l", " ", "C", "B", "D", " ", "(", "m", "g", "/", "u", "n", "i",
       "t", ")", " ", "R", "a", "w", " ", "P", "l", "a", "n", "t", " ", "M", "a", "t", "e",
       "r", "i", "a", "l", " ", "&", " ", "P", "r", "e", "r", "o", "l", "l", "s">>,
     <<"C", "B", "D", " ", "(", "%", ")", " ", "M", "a", "n", "d", "a", "t", "o", "r", "y",
       " ", "C", "a", "n", "n", "a", "b", "i", "n", "o", "i", "d", " ", "%", " ", "a", "n",
       "d", " ", "T", "o", "t", "a", "l", "s">>,
     <<"C", "B", "D", "A", " ", "(", "%", ")", " ", "M", "a", "n", "d", "a", "t", "o", "r",
       "y", " ", "C", "a", "n", "n", "a", "b", "i", "n", "o", "i", "d", " ", "%", " ", "a",
       "n", "d", " ", "T", "o", "t", "a", "l", "s">>,
     <<"T", "o", "t", "a", "l", " ", "T", "H", "C", " ", "(", "m", "g", "/", "s", "e", "r",
       "v", "i", "n", "g", ")", " ", "M", "a", "n", "d", "a", "t", "o", "r", "y", " ", "C",
       "a", "n", "n", "a", "b", "i", "n", "o", "i", "d", " ", "%", " ", "a", "n", "d", " ",
       "T", "o", "t", "a", "l", "s">>,
     <<"T", "o", "t", "a", "l", " ", "T", "H", "C", " ", "(", "m", "g", "/", "u", "n", "i",
       "t", ")", " ", "R", "a", "w", " ", "P", "l", "a", "n", "t", " ", "M", "a", "t", "e",
       "r", "i", "a", "l", " ", "&", " ", "P", "r", "e", "R", "o", "l", "l", "s">>,
     <<"D", "e", "l", "t", "a", "-", "9", " ", "T", "H", "C", " ", "(", "m", "g", "/", "s",
       "e", "r", "v", "i", "n", "g", ")", " ", "R", "a", "w", " ", "P", "l", "a", "n", "t",
       " ", "M", "a", "t", "e", "r", "i", "a", "l", " ", "&", " ", "P", "r", "e", "R", "o",
       "l", "l", "s">>,
     <<"T", "o", "t", "a", "l", " ", "D", "e", "l", "t", "a", "-", "9", " ", "T", "H", "C",
       " ", "(", "m", "g", "/", "s", "e", "r", "v", "i", "n", "g", ")", " ", "M", "a", "n",
       "d", "a", "t", "o", "r", "y", " ", "C", "a", "n", "n", "a", "b", "i", "n", "o", "i",
       "d", " ", "%", " ", "a", "n", "d", " ", "T", "o", "t", "a", "l", "s">>,
     <<"T", "o", "t", "a", "l", " ", "D", "e", "l", "t", "a", "-", "9", " ", "T", "H", "C",
       " ", "(", "m", "g", "/", "u", "n", "i", "t", ")", " ", "R", "a", "w", " ", "P", "l",
       "a", "n", "t", " ", "M", "a", "t", "e", "r", "i", "a", "l", " ", "&", " ", "P", "r",
       "e", "R", "o", "l", "l", "s">>,
     <<"D", "e", "l", "t", "a", "-", "9", " ", "T", "H", "C", " ", "(", "%", ")", " ", "M",
       "a", "n", "d", "a", "t", "o", "r", "y", " ", "C", "a", "n", "n", "a", "b", "i", "n",
       "o", "i", "d", " ", "%", " ", "a", "n", "d", " ", "T", "o", "t", "a", "l", "s">>,
     <<"T", "o", "t", "a", "l", " ", "D", "e", "l", "t", "a", "-", "9", " ", "T", "H", "C",
       " ", "(", "%", ")", " ", "M", "a", "n", "d", "a", "t", "o", "r", "y", " ", "C", "a",
       "n", "n", "a", "b", "i", "n", "o", "i", "d", " ", "%", " ", "a", "n", "d", " ", "T",
       "o", "t", "a", "l", "s">>}

\* lines 477-480: the records whose name holds one of CANNABINOID_TEST_TYPES
is_cannabinoid(r) == \E ct \in CANNABINOID_TEST_TYPES : Contains(r.TestTypeName, ct)

\* cs.replace(old, new) for a non-empty old: every occurrence, from the left
RECURSIVE replace(_, _, _)
replace(cs, old, new) ==
    IF Len(cs) < Len(old) THEN cs
    ELSE IF SubSeq(cs, 1, Len(old)) = old
    THEN new \o replace(SubSeq(cs, Len(old) + 1, Len(cs)), old, new)
    ELSE <<Head(cs)>> \o replace(Tail(cs), old, new)

\* the phrases simplify_cannabinoid_name removes, in the order of lines 586-589
Boilerplate ==
    <<<<"R", "a", "w", " ", "P", "l", "a", "n", "t", " ", "M", "a", "t", "e", "r", "i",
        "a", "l", " ", "&", " ", "P", "r", "e", "R", "o", "l", "l", "s">>,
      <<"M", "a", "n", "d", "a", "t", "o", "r", "y", " ", "C", "a", "n", "n", "a", "b",
        "i", "n", "o", "i", "d", " ", "%", " ", "a", "n", "d", " ", "T", "o", "t", "a",
        "l", "s">>,
      <<"V", "a", "p", "e", "s", " ", "&", " ", "C", "o", "n", "c", "e", "n", "t", "r",
        "a", "t", "e", "s">>,
      <<"I", "n", "f", "u", "s", "e", "d", " ", "P", "l", "a", "n", "t", " ", "M", "a",
        "t", "e", "r", "i", "a", "l", " ", "&", " ", "P", "r", "e", "R", "o", "l", "l",
        "s">>>>

RECURSIVE remove_all(_, _)
remove_all(cs, phrases) ==
    IF phrases = <<>> THEN cs ELSE remove_all(replace(cs, Head(phrases), <<>>), Tail(phrases))

\* simplify_cannabinoid_name, lines 585-590
simplify_cannabinoid_name(test_type) == strip(remove_all(test_type, Boilerplate))

\* str(test_result) of line 500
str_of_result(x) == IF x.t = "null" THEN <<"N", "o", "n", "e">> ELSE str(x)

\* display_result, lines 493-500
display_result(r) ==
    LET test_result == level_or_na(r)
        units == extract_units(r.TestTypeName)
    IN  IF units # <<>> /\ test_result # StrOf(NA)
        THEN str_of_result(test_result) \o <<" ">> \o units
        ELSE str_of_result(test_result)

\* handle_test_results, line 348: populate_cannabinoids_table, lines 475-507; of a
\* row the name and the result column are kept
populate_cannabinoids_table ==
    /\ raised = "none"
    /\ derived = {}
    /\ LET filtered_results == SelectSeq(result_records, is_cannabinoid) IN
       cannabinoids_table' =
           [i \in 1..Len(filtered_results) |->
               [test_type |-> simplify_cannabinoid_name(filtered_results[i].TestTypeName),
                display_result |-> display_result(filtered_results[i])]]
    /\ derived' = {"cannabinoids_table"}
    /\ UNCHANGED <<result_records, raised, test_date, expiration_date, cannabinoid_values,
                   terpenes_data, terpenes_table, export_json>>

\* TestTypeName as the service may send it
TotalTHC ==
    <<"T", "o", "t", "a", "l", " ", "T", "H", "C", " ", "(", "m", "g", "/", "u", "n", "i",
      "t", ")", " ", "R", "a", "w", " ", "P", "l", "a", "n", "t", " ", "M", "a", "t", "e",
      "r", "i", "a", "l", " ", "&", " ", "P", "r", "e", "R", "o", "l", "l", "s">>

CBDAPercent ==
    <<"C", "B", "D", "A", " ", "(", "%", ")", " ", "M", "a", "n", "d", "a", "t", "o", "r",
      "y", " ", "C", "a", "n", "n", "a", "b", "i", "n", "o", "i", "d", " ", "%", " ", "a",
      "n", "d", " ", "T", "o", "t", "a", "l", "s">>

LimonenePercent ==
    <<"L", "i", "m", "o", "n", "e", "n", "e", " ", "(", "%", ")", " ", "M", "a", "n", "d",
      "a", "t", "o", "r", "y", " ", "T", "e", "r", "p", "e", "n", "e", "s">>

MoistureContent ==
    <<"M", "o", "i", "s", "t", "u", "r", "e", " ", "C", "o", "n", "t", "e", "n", "t", " ",
      "(", "%", ")">>

CBDInLimonene ==
    <<"C", "B", "D", " ", "i", "n", " ", "L", "i", "m", "o", "n", "e", "n", "e", " ", "(",
      "%", ")">>

TestTypeNames == {TotalTHC, CBDAPercent, LimonenePercent, MoistureContent, CBDInLimonene}

\* records of the classifier: a result of 12.5 under each name and date
ClassifyRecords ==
    {Record(name, FloatOf(1250000), date) :
        name \in TestTypeNames,
        date \in {NoMember,
                  StrOf(<<"2", "0", "2", "4", "-", "0", "3", "-", "1", "0">>),
                  StrOf(<<"0", "3", "/", "1", "0", "/", "2", "0", "2", "4">>)}}

-----------------------------------------------------------------------------
(* parse_product_name *)

\* str.split(): the words between the runs of whitespace
RECURSIVE split(_)
split(cs) ==
    LET t == lstrip(cs)
        k == Find(t, " ")
    IN  IF t = <<>> THEN <<>>
        ELSE IF k = 0 THEN <<t>>
        ELSE <<SubSeq(t, 1, k - 1)>> \o split(SubSeq(t, k + 1, Len(t)))

\* " ".join(words)
RECURSIVE join(_)
join(words) ==
    IF words = <<>> THEN <<>>
    ELSE IF Len(words) = 1 THEN words[1]
    ELSE words[1] \o <<" ">> \o join(Tail(words))

RECURSIVE colon_position_last(_)
colon_position_last(cs) ==
    IF cs = <<>> THEN 0
    ELSE IF cs[Len(cs)] = ":" THEN Len(cs)
    ELSE colon_position_last(SubSeq(cs, 1, Len(cs) - 1))

\* where split(':', 1) cuts: the first colon, 0 when ':' in product_name is false
colon_position(cs) == Find(cs, ":")

\* the attributes as MetrcApp.__init__ leaves them, lines 231-233
Unparsed ==
    /\ name_parsed = FALSE
    /\ approval_number = NA
    /\ strain_name = NA
    /\ product_description = NA

\* parse_product_name, lines 370-391
parse_product_name ==
    /\ ~name_parsed
    /\ LET colon == colon_position(product_name_arg)
           rest == IF colon # 0
                   THEN strip(SubSeq(product_name_arg, colon + 1, Len(product_name_arg)))
                   ELSE product_name_arg
           words == split(rest)
       IN  /\ approval_number' = IF colon # 0
                                 THEN strip(SubSeq(product_name_arg, 1, colon - 1)) ELSE NA
           /\ strain_name' = IF Len(words) >= 1 THEN words[Len(words)] ELSE NA
           /\ product_description' =
                  IF Len(words) > 1 THEN strip(join(SubSeq(words, 1, Len(words) - 1)))
                  ELSE IF Len(words) = 1 THEN <<>>
                  ELSE rest
    /\ name_parsed' = TRUE
    /\ UNCHANGED product_name_arg

\* the characters of the product names of the model
NameChars == {"A", "B", ":", " "}

PremiumOGKush ==
    <<"A", "B", "-", "1", "0", "0", ":", " ", "P", "r", "e", "m", "i", "u", "m", " ", "O", "G", " ", "K", "u", "s", "h">>

\* the product names handed to parse_product_name
ProductNames == UNION {[1..n -> NameChars] : n \in 0..MaxNameLen} \cup {PremiumOGKush}

\* no product name is being parsed
ParseIdle == product_name_arg = <<>> /\ Unparsed

-----------------------------------------------------------------------------
(* Specifications *)

Terminal == pc \in {"done", "raised"}

\* a Worker, constructed for one of the licenses in `lics`, not yet started
RunInit(lics) ==
    /\ license_code \in lics
    /\ full_label \in SearchLabels(license_code)
    /\ pc = "start"
    /\ attempt_number = 0
    /\ exc = "none"
    /\ package_data = NoPackage
    /\ page_number = 0
    /\ total_pages = 0
    /\ all_test_results = <<>>
    /\ data = <<>>
    /\ emitted = <<>>
    /\ calls = <<>>
    /\ request = NoAttempts(0)
    /\ served = <<>>

\* MetrcApp.__init__, lines 117-240
AppInit ==
    /\ tag_input = <<>>
    /\ license_combo = "MAN000035"
    /\ thread = 0
    /\ workers = <<>>
    /\ queue = <<>>
    /\ crashed = FALSE
    /\ dialog = ""
    /\ status_label = ""
    /\ progress_visible = FALSE
    /\ export_enabled = FALSE
    /\ product_name = "Unknown Product"
    /\ source_package_label_value = "N/A"
    /\ full_package_tag = "N/A"
    /\ license_selected = "N/A"
    /\ table_results = <<>>
    /\ summary_results = <<>>
    /\ exported = <<>>

\* no result list is being worked on
CalcIdle == result_records = <<>> /\ Underived

Init == RunInit({"MAN000035"}) /\ AppInit /\ ParseIdle /\ CalcIdle

Next ==
    \/ RunStart /\ UNCHANGED <<appVars, calcVars, parseVars>>
    \/ AttemptFailsRetry /\ UNCHANGED <<appVars, calcVars, parseVars>>
    \/ AttemptFailsStop /\ UNCHANGED <<appVars, calcVars, parseVars>>
    \/ PackageResponse /\ UNCHANGED <<appVars, calcVars, parseVars>>
    \/ SourceResponse /\ UNCHANGED <<appVars, calcVars, parseVars>>
    \/ ResultsResponse /\ UNCHANGED <<appVars, calcVars, parseVars>>

AppNext ==
    \/ SelectLicense /\ UNCHANGED <<runVars, calcVars, parseVars>>
    \/ search_test_results /\ UNCHANGED <<runVars, calcVars, parseVars>>
    \/ \E w \in 1..Len(workers) : WorkerRun(w) /\ UNCHANGED <<runVars, calcVars, parseVars>>
    \/ handle_error /\ UNCHANGED <<runVars, calcVars, parseVars>>
    \/ handle_test_results /\ UNCHANGED <<runVars, calcVars, parseVars>>
    \/ worker_done /\ UNCHANGED <<runVars, calcVars, parseVars>>
    \/ handle_export_click /\ UNCHANGED <<runVars, calcVars, parseVars>>

AppSpec == Init /\ [][AppNext]_vars

\* the steps the program takes by itself: a started thread runs its worker, and the
\* event loop delivers the queued signals to their slots
ProgramStep ==
    \/ \E w \in 1..Len(workers) : WorkerRun(w) /\ UNCHANGED <<runVars, calcVars, parseVars>>
    \/ handle_error /\ UNCHANGED <<runVars, calcVars, parseVars>>
    \/ handle_test_results /\ UNCHANGED <<runVars, calcVars, parseVars>>
    \/ worker_done /\ UNCHANGED <<runVars, calcVars, parseVars>>

\* AppSpec with every request of a worker answered or failed in the end (timeout=10,
\* five attempts) and every queued signal delivered; the user is under no obligation
AppLiveSpec == AppSpec /\ WF_vars(ProgramStep)

\* the search form alone: the license selector, the tag field and the search handler
FormNext ==
    \/ SelectLicense /\ UNCHANGED <<runVars, calcVars, parseVars>>
    \/ search_test_results /\ UNCHANGED <<runVars, calcVars, parseVars>>

FormSpec == Init /\ [][FormNext]_vars

\* the dates derived from one result list
DateInit ==
    /\ RunInit({"MAN000035"}) /\ AppInit /\ ParseIdle
    /\ result_records \in Lists(DateRecords)
    /\ Underived

DateNext == derive_dates /\ UNCHANGED <<runVars, appVars, parseVars>>

DateSpec == DateInit /\ [][DateNext]_vars

\* the potency values and the aroma list derived from one result list, and their
\* export
CompoundInit ==
    /\ RunInit({"MAN000035"}) /\ AppInit /\ ParseIdle
    /\ result_records \in Lists(CompoundRecords)
    /\ Underived

CompoundNext ==
    \/ populate_terpenes_table /\ UNCHANGED <<runVars, appVars, parseVars>>
    \/ derive_cannabinoid_values /\ UNCHANGED <<runVars, appVars, parseVars>>
    \/ export_results_to_json /\ UNCHANGED <<runVars, appVars, parseVars>>

CompoundSpec == CompoundInit /\ [][CompoundNext]_vars

\* the two tables and the dates derived from one result list
ClassifyInit ==
    /\ RunInit({"MAN000035"}) /\ AppInit /\ ParseIdle
    /\ result_records \in Lists(ClassifyRecords)
    /\ Underived

ClassifyNext ==
    \/ populate_cannabinoids_table /\ UNCHANGED <<runVars, appVars, parseVars>>
    \* line 349 follows line 348, and line 354 follows line 349
    \/ "cannabinoids_table" \in derived /\ populate_terpenes_table /\ UNCHANGED <<runVars, appVars, parseVars>>
    \/ "terpenes" \in derived /\ derive_dates /\ UNCHANGED <<runVars, appVars, parseVars>>

ClassifySpec == ClassifyInit /\ [][ClassifyNext]_vars

\* one product name parsed
ParseInit ==
    /\ RunInit({"MAN000035"}) /\ AppInit /\ CalcIdle
    /\ product_name_arg \in ProductNames
    /\ Unparsed

ParseNext == parse_product_name /\ UNCHANGED <<runVars, appVars, calcVars>>

ParseSpec == ParseInit /\ [][ParseNext]_vars

Spec == Init /\ [][Next]_vars

LiveSpec == Spec /\ WF_vars(Next)

-----------------------------------------------------------------------------
(* What a run has done, read from the history *)

ResultCalls == SelectSeq(calls, LAMBDA c : c.ep = "res")

PagesOf(cs) == [i \in 1..Len(cs) |-> cs[i].page]

UpTo(n) == [i \in 1..n |-> i]

IsPage(body) == body.kind \in {"dict", "list"}

DataOf(body) == IF IsPage(body) /\ Present(body.Data) THEN Val(body.Data) ELSE <<>>

RECURSIVE ConcatData(_)
ConcatData(bodies) ==
    IF bodies = <<>> THEN <<>> ELSE DataOf(Head(bodies)) \o ConcatData(Tail(bodies))

\* the total-page count a body reports to the fetcher
ReportedTotal(body) ==
    IF body.kind = "dict" /\ Present(body.TotalPages) THEN Val(body.TotalPages) ELSE 1

Succeeded ==
    /\ pc = "done"
    /\ Len(emitted) = 2
    /\ emitted[1].sig = "test_results_ready"
    /\ emitted[2].sig = "finished"

ReportedError(msg, ctx) == pc = "done" /\ emitted = <<ErrorSignal(msg, ctx)>>

\* every page answered so far was {"Data": [...], "TotalPages": n}
AllPagesEnveloped(n) ==
    \A i \in 1..Len(served) :
        /\ served[i].kind = "dict"
        /\ Present(served[i].Data)
        /\ served[i].TotalPages = Some(n)

\* the result lists a run of Spec can deliver: page names, at most one per page
PageLists == UNION {[1..n -> 1..MaxPages] : n \in 0..MaxPages}

\* Worker.run taken as one step in AppSpec ends in no way the steps of Spec do not
RunOutcomeSound ==
    Terminal => [emitted |-> emitted, exc |-> exc]
                    \in RunOutcomes(full_label, PageLists, PackageInfos(full_label))

-----------------------------------------------------------------------------
(* C1 *)

\* C1: when every page is answered with an object holding Data and TotalPages = N,
\* get_test_results requests the pages 1, 2, ..., N once each and in this order, and
\* once page N is answered it succeeds with the N Data arrays concatenated in page
\* order.
C1_PagesFetchedInOrder ==
    \A n \in 1..MaxPages :
        (served # <<>> /\ AllPagesEnveloped(n)) =>
            /\ Len(ResultCalls) <= n
            /\ PagesOf(ResultCalls) = UpTo(Len(ResultCalls))
            /\ Len(served) < n => /\ ~Succeeded
                                  /\ Len(ResultCalls) = Len(served) + 1
            /\ Len(served) = n => /\ Succeeded
                                  /\ Len(ResultCalls) = n
                                  /\ emitted[1].results = ConcatData(served)
                                  /\ all_test_results = ConcatData(served)

C1_Witness ==
    /\ Len(served) = 3
    /\ AllPagesEnveloped(3)
    /\ Len(ResultCalls) = 3
    /\ Succeeded
    /\ emitted[1].results = <<1, 2, 3>>

-----------------------------------------------------------------------------
(* C2 *)

\* C2: when the transport call for a page fails, get_test_results returns that
\* failure to Worker.run (which reports it as an error for "test results", with no
\* records), and no later page is requested.
C2_PageFailureReturned ==
    (ResultCalls # <<>> /\ ResultCalls[Len(ResultCalls)].outcome = "RetryError") =>
        /\ calls[Len(calls)].ep = "res"
        /\ exc = "none"
        /\ ReportedError("Network error", "test results")

-----------------------------------------------------------------------------
(* C3 *)

\* C3: an HTTP error status ends the request: no session.get is issued after an
\* answer with an HTTP error status, and the call is over as soon as one arrives.
C3_HttpErrorIsTerminal ==
    /\ ~request.afterHttpError
    /\ request.latest \in HttpErrorKinds => calls[request.call].outcome # "pending"

-----------------------------------------------------------------------------
(* C4 *)

\* C4: when all attempts of a request fail with a connection error or a timeout,
\* the caller gets {success: False, error: "Network error"} and no exception
\* leaves the operation: run reports the error and ends normally.
C4_NetworkErrorReturned ==
    (request.failures = MaxAttempts /\ request.latest \in TransientKinds
        /\ ~request.afterHttpError /\ calls[request.call].ep \in {"pkg", "res"}) =>
        /\ exc = "none"
        /\ calls[request.call].ep = "pkg" => ReportedError("Network error", "package details")
        /\ calls[request.call].ep = "res" => ReportedError("Network error", "test results")

-----------------------------------------------------------------------------
(* C5 *)

\* C5: a request answered with success after k failed attempts (k < 5) has made
\* exactly k + 1 attempts and is returned then; no request makes more than 5
\* attempts, and none makes an attempt after a success.
C5_BoundedRetry ==
    /\ request.gets <= MaxAttempts
    /\ ~request.afterSuccess
    /\ request.latest = "ok" => /\ request.failures < MaxAttempts
                                /\ request.gets = request.failures + 1
                                /\ calls[request.call].outcome = "ok"
    /\ InRequest => /\ calls[Len(calls)].outcome = "pending"
                    /\ attempt_number =
                          (IF request.call = Len(calls) THEN request.failures ELSE 0) + 1
                    /\ request.call = Len(calls) => request.gets = request.failures

C5_Witness ==
    /\ request.latest = "ok"
    /\ request.failures = 3
    /\ request.gets = 4
    /\ ~request.afterHttpError

-----------------------------------------------------------------------------
(* C6 *)

\* C6: the error Worker.run passes on names the cause: a request that ended on
\* HTTP 401 is reported as "Unauthorized", one that ended on HTTP 400 as an error
\* that is neither "Unauthorized" nor "Network error".
C6_CauseReported ==
    /\ (Terminal /\ request.latest = "HTTP401") =>
            /\ Len(emitted) = 1
            /\ emitted[1].sig = "error"
            /\ emitted[1].msg = "Unauthorized"
    /\ (Terminal /\ request.latest = "HTTP400") =>
            /\ Len(emitted) = 1
            /\ emitted[1].sig = "error"
            /\ emitted[1].msg \notin {"Unauthorized", "Network error"}

-----------------------------------------------------------------------------
(* C7 *)

\* C7: the lab-results request is issued only after the package lookup succeeded,
\* and a finished run has emitted either one error or test_results_ready followed
\* by finished, never anything else.
C7_OneReportPerRun ==
    /\ ResultCalls # <<>> =>
            /\ calls[1].ep = "pkg"
            /\ calls[1].outcome = "ok"
            /\ Present(package_data.package_id)
            /\ TruthyInt(Val(package_data.package_id))
    /\ \A i \in 1..Len(emitted) : emitted[i].sig = "error" => Len(emitted) = 1
    /\ Terminal =>
            \/ Len(emitted) = 1 /\ emitted[1].sig = "error"
            \/ Succeeded

-----------------------------------------------------------------------------
(* C9 *)

\* C9: when the first page is answered with a bare array, get_test_results makes
\* no further request and succeeds with exactly that array.
C9_BareArrayFirstPage ==
    (served # <<>> /\ served[1].kind = "list") =>
        /\ Len(ResultCalls) = 1
        /\ Succeeded
        /\ emitted[1].results = DataOf(served[1])

-----------------------------------------------------------------------------
(* C10 *)

\* the page loop has ended with success / has ended at all
FetchSucceeded == Succeeded
FetchEnded == ResultCalls # <<>> /\ Terminal

\* C10: get_test_results ends with success only with the cursor one past the pages
\* fetched and above the total the latest answer reported; it ends otherwise only
\* on an error, which is the first one (every earlier call and page was good); and
\* with the reported totals bounded the run always ends.
C10_FetcherTerminates ==
    /\ [](FetchSucceeded =>
            /\ page_number = Len(served) + 1
            /\ total_pages = ReportedTotal(served[Len(served)])
            /\ page_number > total_pages)
    /\ []((FetchEnded /\ ~FetchSucceeded) =>
            /\ \/ exc # "none"
               \/ (Len(emitted) = 1 /\ emitted[1].sig = "error"
                    /\ emitted[1].ctx = "test results")
            /\ \A i \in 1..(Len(calls) - 1) : calls[i].outcome = "ok"
            /\ \A i \in 1..(Len(served) - 1) : IsPage(served[i]))
    /\ <>Terminal

C10_Witness ==
    /\ FetchSucceeded
    /\ Len(served) = 2
    /\ served[1].TotalPages = Some(3)
    /\ served[2].kind = "dict"
    /\ served[2].TotalPages = Some(2)
    /\ page_number = 3
    /\ total_pages = 2

-----------------------------------------------------------------------------
(* C8 *)

\* no retrieval is in flight and no signal is waiting
Quiescent ==
    /\ ~crashed
    /\ queue = <<>>
    /\ \A w \in 1..Len(workers) : workers[w].state # "running"

\* the surface shows what the run that emitted `out` reported
Shows(out, label) ==
    IF out[1].sig = "error"
    THEN status_label = "Error fetching " \o out[1].ctx \o "."
    ELSE IF out[1].results = <<>>
    THEN /\ status_label = "No test results found."
         /\ table_results = <<>>
         /\ ~export_enabled
    ELSE /\ status_label = "Test results fetched successfully."
         /\ table_results = out[1].results
         /\ summary_results = out[1].results
         /\ product_name = out[1].info.product_name
         /\ source_package_label_value = out[1].info.source_package_label
         /\ full_package_tag = label
         /\ export_enabled

\* C8: once two searches have completed, whatever the order in which their workers
\* completed, the surface shows (and would export) what the search started last
\* reported; what the earlier one reported is discarded.
C8_LatestSearchShown ==
    (Len(workers) >= 2 /\ Quiescent /\ workers[Len(workers)].state = "returned") =>
        Shows(workers[Len(workers)].emitted, workers[Len(workers)].full_label)

-----------------------------------------------------------------------------
(* C11 *)

\* get_package_id has come back to Worker.run, or has raised
LookupEnded == package_data.kind # "none" /\ pc # "src"

\* Worker.run went on to get_test_results (line 77): the lookup succeeded
LookupSucceeded == ResultCalls # <<>>

\* C11: get_package_id fails with "Unexpected JSON structure" on a body that is
\* JSON but no object, fails with "packageId not found" on an object without Id,
\* and on an object with an Id succeeds with that Id and with the product name
\* equal to the Item's Name when it has one and to the label passed in otherwise.
C11_PackageClassification ==
    LookupEnded =>
        /\ package_data.kind \in {"list", "scalar"} =>
                ReportedError("Unexpected JSON structure", "package details")
        /\ (package_data.kind = "dict" /\ ~Present(package_data.package_id)) =>
                ReportedError("packageId not found", "package details")
        /\ (package_data.kind = "dict" /\ Present(package_data.package_id)
                /\ TruthyInt(Val(package_data.package_id))) =>
                /\ LookupSucceeded
                /\ package_data.product_name =
                        IF Present(package_data.Item.Name)
                           /\ TruthyStr(Val(package_data.Item.Name))
                        THEN Val(package_data.Item.Name) ELSE full_label

-----------------------------------------------------------------------------
(* C12 *)

\* the secondary request of get_source_package_label was made and is over
SourceCallEnded ==
    /\ Len(calls) >= 2
    /\ calls[2].ep = "src"
    /\ calls[2].outcome # "pending"

\* C12: when get_package_id asks for the source package, whatever becomes of that
\* request the lookup succeeds if the package body had an Id, and the source label
\* is "N/A" when the request failed.
C12_SourceLabelBestEffort ==
    (SourceCallEnded /\ Present(package_data.package_id)
        /\ TruthyInt(Val(package_data.package_id))) =>
        /\ LookupSucceeded
        /\ calls[2].outcome # "ok" => package_data.source_package_label = "N/A"

-----------------------------------------------------------------------------
(* C13 *)

AllDigits(cs) == cs # <<>> /\ \A i \in 1..Len(cs) : cs[i] \in Digits

\* a step that constructs a Worker
WorkerStarted == Len(workers') = Len(workers) + 1

\* the Worker the step constructed was given the license and the label prefix ++ tag
StartedWith(tag) ==
    /\ workers'[Len(workers')].license_code = license_combo
    /\ workers'[Len(workers')].full_label = PREFIXES[license_combo] \o Str(tag)
    /\ thread' = Len(workers')

\* C13 as stated, for the text of the tag field: a Worker is started only for a
\* non-empty all-digit text and a license with a prefix, with the label
\* prefix ++ text; for any other text no Worker is started.
C13_LabelOfRawTag ==
    [][/\ WorkerStarted =>
            /\ AllDigits(tag_input')
            /\ license_combo \in DOMAIN PREFIXES
            /\ StartedWith(tag_input')
       /\ ~AllDigits(tag_input') => (Len(workers') = Len(workers) /\ thread' = thread)
      ]_vars

\* C13: with partial_tag the text of the tag field stripped of surrounding
\* whitespace, search_test_results starts a Worker only for a non-empty all-digit
\* partial_tag and a license with a prefix, and hands it the label
\* prefix ++ partial_tag; for an empty or non-digit partial_tag no Worker is
\* started (so no request is made) and the current thread is left alone.
C13_LabelResolution ==
    [][/\ WorkerStarted =>
            /\ AllDigits(strip(tag_input'))
            /\ license_combo \in DOMAIN PREFIXES
            /\ StartedWith(strip(tag_input'))
       /\ ~AllDigits(strip(tag_input')) =>
            (Len(workers') = Len(workers) /\ thread' = thread)
      ]_vars

C13_Witness ==
    /\ tag_input = <<" ", "7", " ">>
    /\ license_combo = "CUL000032"
    /\ Len(workers) = 1
    /\ workers[1].license_code = "CUL000032"
    /\ workers[1].full_label = "1A40C030000332D00007"

-----------------------------------------------------------------------------
(* C14 *)

\* the search started last
LatestSearch == workers[Len(workers)]

\* `rec` holds what the search started last delivered, and nothing else
DerivedFromLatest(rec) ==
    /\ LatestSearch.emitted[1].sig = "test_results_ready"
    /\ LatestSearch.emitted[1].results # <<>>
    /\ rec.ProductName = LatestSearch.emitted[1].info.product_name
    /\ rec.SourcePackage = LatestSearch.emitted[1].info.source_package_label
    /\ rec.FullPackageTag = LatestSearch.full_label
    /\ rec.summary = LatestSearch.emitted[1].results
    /\ rec.Terpenes = LatestSearch.emitted[1].results

\* C14: once every search made so far is over and its signals are handled, an
\* export writes only what the search started last delivered; after a search that
\* reported an error or found no records nothing of an earlier search is written.
C14_ExportOfLatestSearch ==
    [][(exported' # exported /\ Quiescent /\ workers # <<>>
            /\ LatestSearch.state = "returned") =>
            DerivedFromLatest(Val(exported'))]_vars

-----------------------------------------------------------------------------
(* C15 *)

ParsesAsDate(member) == member.t = "str" /\ strptime(member.s).ok

\* the date of the first record whose date parses, "N/A" when there is none
RECURSIVE FirstValidDate(_)
FirstValidDate(rs) ==
    IF rs = <<>> THEN StrOf(NA)
    ELSE IF ParsesAsDate(Head(rs).TestPerformedDate) THEN Head(rs).TestPerformedDate
    ELSE FirstValidDate(Tail(rs))

\* C15: extract_test_date returns the date of the first record, in input order,
\* whose TestPerformedDate parses as a calendar date, passing over the records
\* before it whose date is absent or does not parse, and "N/A" when no record's
\* date parses.
C15_FirstValidTestDate ==
    "dates" \in derived => test_date = FirstValidDate(result_records)

-----------------------------------------------------------------------------
(* C16 *)

\* lines 354-357 have run, or were left by an exception
DatesDerived == "dates" \in derived \/ raised # "none"

\* C16: the expiration date is the test date plus one calendar year as MM/DD/YYYY
\* ("2024-03-10" gives "03/10/2025"), it is "N/A" when there is no test date, and
\* computing the two never raises, whatever the records' dates are.
C16_ExpirationDate ==
    DatesDerived =>
        /\ raised = "none"
        /\ test_date = StrOf(NA) => expiration_date = StrOf(NA)
        /\ ("dates" \in derived /\ test_date # StrOf(NA)) =>
                expiration_date = StrOf(strftime(plus_one_year(strptime(test_date.s))))
        /\ test_date = StrOf(<<"2", "0", "2", "4", "-", "0", "3", "-", "1", "0">>) =>
                expiration_date = StrOf(<<"0", "3", "/", "1", "0", "/", "2", "0", "2", "5">>)
        /\ test_date = StrOf(<<"2", "0", "2", "4", "-", "0", "2", "-", "2", "9">>) =>
                expiration_date = StrOf(<<"0", "2", "/", "2", "8", "/", "2", "0", "2", "5">>)

-----------------------------------------------------------------------------
(* C17 *)

\* what a TestResultLevel says: a number (given as such or as a str that float()
\* parses), the literal "N/A" (also by default, when the member is absent)
IsNumber(x) == x.t \in {"int", "float"} \/ (x.t = "str" /\ float(x.s).ok)
NumberOf(x) == IF x.t = "str" THEN float(x.s).v ELSE x.v
IsNA(x) == x.t = "absent" \/ x = StrOf(NA)
NonPositive(x) == IsNumber(x) /\ NumberOf(x) <= 0

\* the positions of result_records that hold a record of compound c
RecordsOf(c) == {i \in 1..Len(result_records) : result_records[i].TestTypeName = c}

\* C17: the mapping extract_cannabinoid_values returns, and the Cannabinoids mapping
\* that export writes, has exactly the keys of INDIVIDUAL_CANNABINOIDS, and a
\* compound with no record, or whose records' results are all non-positive or
\* "N/A", maps to "0.0".
C17_PotencyMapping ==
    /\ "cannabinoids" \in derived =>
        /\ DOMAIN cannabinoid_values = INDIVIDUAL_CANNABINOIDS
        /\ \A c \in INDIVIDUAL_CANNABINOIDS :
            (\A i \in RecordsOf(c) :
                \/ NonPositive(result_records[i].TestResultLevel)
                \/ IsNA(result_records[i].TestResultLevel))
            => cannabinoid_values[c] = ZeroStr
    /\ "export" \in derived =>
        /\ DOMAIN Val(export_json).Cannabinoids = INDIVIDUAL_CANNABINOIDS
        /\ Val(export_json).Cannabinoids = cannabinoid_values

C17_Witness ==
    /\ "export" \in derived
    /\ Len(result_records) = 3
    /\ result_records[1].TestTypeName = <<"T", "H", "C", "A">>
    /\ result_records[1].TestResultLevel = StrOf(<<"-", "1", ".", "5">>)
    /\ result_records[2].TestTypeName = <<"T", "H", "C", "A">>
    /\ result_records[2].TestResultLevel = IntOf(0)
    /\ result_records[3].TestTypeName = <<"L", "i", "m", "o", "n", "e", "n", "e">>
    /\ Val(export_json).Cannabinoids[<<"T", "H", "C", "A">>] = ZeroStr
    /\ Val(export_json).Cannabinoids[<<"C", "B", "D">>] = ZeroStr

-----------------------------------------------------------------------------
(* C18 *)

IsZero(x) == IsNumber(x) /\ NumberOf(x) = 0

\* the positions of result_records whose record belongs into the aroma list: a
\* terpene with a number other than zero or with a str that is no number and not
\* "N/A"
AromaPositions ==
    {i \in 1..Len(result_records) :
        LET x == result_records[i].TestResultLevel IN
        /\ is_terpene(result_records[i])
        /\ x.t \in {"str", "int", "float"}
        /\ ~IsZero(x)
        /\ ~IsNA(x)}

\* C18: populate_terpenes_table keeps no record whose concentration is a number
\* equal to zero or is "N/A", keeps every other terpene record with a number or a
\* str, shows a number rounded to two decimals followed by "%" ("3.14159" as
\* "3.14%"), and shows a str that is no number as it is.
C18_AromaFilterAndFormat ==
    "terpenes" \in derived =>
        /\ Len(terpenes_table) = Len(terpenes_data)
        /\ Len(terpenes_data) = Cardinality(AromaPositions)
        /\ \A i \in 1..Len(terpenes_data) :
            LET x == terpenes_data[i].TestResultLevel IN
            /\ \E j \in AromaPositions : result_records[j] = terpenes_data[i]
            /\ ~IsZero(x)
            /\ ~IsNA(x)
            /\ IsNumber(x) =>
                /\ Len(terpenes_table[i]) >= 2
                /\ terpenes_table[i][Len(terpenes_table[i])] = "%"
                /\ float(SubSeq(terpenes_table[i], 1, Len(terpenes_table[i]) - 1)).v
                        = round2(NumberOf(x)) * 1000
            /\ ~IsNumber(x) => terpenes_table[i] = x.s
            /\ x = StrOf(<<"3", ".", "1", "4", "1", "5", "9">>) => terpenes_table[i] = <<"3", ".", "1", "4", "%">>

C18_Witness ==
    /\ "terpenes" \in derived
    /\ Len(result_records) = 3
    /\ is_terpene(result_records[1]) /\ result_records[1].TestResultLevel = StrOf(<<"0">>)
    /\ is_terpene(result_records[2]) /\ result_records[2].TestResultLevel = StrOf(<<"N", "D">>)
    /\ is_terpene(result_records[3])
    /\ result_records[3].TestResultLevel = StrOf(<<"3", ".", "1", "4", "1", "5", "9">>)
    /\ terpenes_table = <<<<"3", ".", "1", "4", "%">>, <<"N", "D">> >>

-----------------------------------------------------------------------------
(* C19 *)

\* C19: no entry of terpenes_data, and none of the exported Terpenes, has a
\* concentration that is zero or negative.
C19_AromaPositive ==
    /\ "terpenes" \in derived =>
        \A i \in 1..Len(terpenes_data) : ~NonPositive(terpenes_data[i].TestResultLevel)
    /\ ("export" \in derived /\ terpenes_data # <<>>) =>
        \A i \in 1..Len(Val(export_json).Terpenes) :
            ~NonPositive(StrOf(without_percent(Val(export_json).Terpenes[i])))

-----------------------------------------------------------------------------
(* C20 *)

\* the number a concentration is ordered by: its value, zero when it is no number
ParsedOrZero(x) == IF IsNumber(x) THEN NumberOf(x) ELSE 0

\* C20: terpenes_data and the exported Terpenes are in descending order of the
\* parsed concentration, a concentration that is no number counting as zero, and
\* neither the table nor the export fails on a concentration that is no number.
\* (The order is asked for only of lists without a negative concentration, which
\* C19 says the list never holds.)
C20_AromaOrder ==
    /\ raised # "ValueError"
    /\ ("terpenes" \in derived
        /\ \A i \in 1..Len(terpenes_data) : ~NonPositive(terpenes_data[i].TestResultLevel)) =>
        \A i, j \in 1..Len(terpenes_data) :
            i < j => ParsedOrZero(terpenes_data[i].TestResultLevel)
                        >= ParsedOrZero(terpenes_data[j].TestResultLevel)
    /\ ("export" \in derived /\ terpenes_data # <<>>) =>
        \A i, j \in 1..Len(Val(export_json).Terpenes) :
            i < j => ParsedOrZero(StrOf(without_percent(Val(export_json).Terpenes[i])))
                        >= ParsedOrZero(StrOf(without_percent(Val(export_json).Terpenes[j])))

-----------------------------------------------------------------------------
(* C21: the potency view and the aroma view are disjoint: once both tables are
   populated, no record of the result list was selected by both the potency
   filter and the aroma filter. *)

TablesPopulated == {"cannabinoids_table", "terpenes"} \subseteq derived

\* the records of the list that is_cannabinoid selects are the rows of the potency table
PotencyView == SelectSeq(result_records, is_cannabinoid)
AromaView == SelectSeq(result_records, is_terpene)

C21_ViewsDisjoint ==
    TablesPopulated =>
        /\ Len(cannabinoids_table) = Len(PotencyView)
        /\ \A i \in 1..Len(result_records) :
              ~(is_cannabinoid(result_records[i]) /\ is_terpene(result_records[i]))

-----------------------------------------------------------------------------
(* C22: the display name of every row of the potency table is a canonical
   compound name: the boilerplate phrases and the leading "Total " are removed
   and the name of the first matching pattern is taken; in particular the row
   of "Total THC (mg/unit) Raw Plant Material & PreRolls" is named "THC" and
   its unit is "mg/unit". *)

\* the names the canonicalization may produce, the THC-variant forms included
CanonicalNames ==
    {<<"C", "B", "D", "A">>, <<"C", "B", "N">>, <<"C", "B", "D", "V">>, <<"C", "B", "D">>,
     <<"T", "H", "C", "A">>, <<"T", "H", "C", "V">>, <<"T", "H", "C">>,
     <<"Δ", "9", "-", "T", "H", "C">>, <<"Δ", "8", "-", "T", "H", "C">>,
     <<"D", "e", "l", "t", "a", "-", "9", " ", "T", "H", "C">>,
     <<"D", "e", "l", "t", "a", "-", "8", " ", "T", "H", "C">>}

C22_CanonicalDisplayName ==
    "cannabinoids_table" \in derived =>
        \A i \in 1..Len(cannabinoids_table) :
            /\ PotencyView[i].TestTypeName \in CANNABINOID_TEST_TYPES =>
                  cannabinoids_table[i].test_type \in CanonicalNames
            /\ PotencyView[i].TestTypeName = TotalTHC =>
                  /\ cannabinoids_table[i].test_type = <<"T", "H", "C">>
                  /\ extract_units(PotencyView[i].TestTypeName)
                        = <<"m", "g", "/", "u", "n", "i", "t">>

-----------------------------------------------------------------------------
(* C23: get_test_results fails with "Unexpected JSON structure" on every page
   body that is JSON but neither an object with a Data member nor a bare array:
   the run ends at that page with this error reported; an object without Data
   is not taken as an empty page. *)

NoPageShape(body) ==
    body.kind = "scalar" \/ (body.kind = "dict" /\ ~Present(body.Data))

C23_PageShapeRejected ==
    \A i \in 1..Len(served) :
        NoPageShape(served[i]) =>
            /\ i = Len(served)
            /\ ReportedError("Unexpected JSON structure", "test results")

-----------------------------------------------------------------------------
(* C26: get_test_results reads the total-page count anew from every object it
   is answered with, 1 when the object has no TotalPages: a first page without
   TotalPages is the only page requested, and a page k > 1 without TotalPages
   is the last one requested, the fetch succeeding with the pages 1..k, even
   when an earlier page reported more than k pages. *)

OmitsTotal(body) == body.kind = "dict" /\ ~Present(body.TotalPages)

C26_TotalReadFromEveryPage ==
    /\ (served # <<>> /\ IsPage(served[Len(served)]) /\ exc = "none") =>
            total_pages = ReportedTotal(served[Len(served)])
    /\ \A k \in 1..Len(served) :
            OmitsTotal(served[k]) =>
                /\ k = Len(served)
                /\ PagesOf(ResultCalls) = UpTo(k)
                /\ Succeeded
                /\ emitted[1].results = ConcatData(served)

\* page 1 reported three pages, page 2 reported none, and the fetch has ended there
C26_Witness ==
    /\ Len(served) = 2
    /\ served[1].kind = "dict" /\ served[1].TotalPages = Some(3)
    /\ OmitsTotal(served[2])
    /\ Succeeded
    /\ Len(ResultCalls) = 2

-----------------------------------------------------------------------------
(* C24: parse_product_name: the approval number is the text before the first
   colon, "N/A" when there is no colon; the remainder is the text after the
   first colon, the whole name when there is no colon; the strain is the last
   whitespace-separated token of the remainder and the description is the
   tokens before it joined by single spaces, empty when there is one token. *)

BeforeColon(cs) == SubSeq(cs, 1, Find(cs, ":") - 1)
Remainder(cs) == IF Find(cs, ":") = 0 THEN cs ELSE SubSeq(cs, Find(cs, ":") + 1, Len(cs))

\* cs without its leading and trailing spaces and with every run of spaces cut to one
Squeezed(cs) ==
    LET t == strip(cs)
        kept == {i \in 1..Len(t) : t[i] # " " \/ t[i - 1] # " "}
        nth(j) == CHOOSE i \in kept : Cardinality({m \in kept : m < i}) = j - 1
    IN  [j \in 1..Cardinality(kept) |-> t[nth(j)]]

HasToken(cs) == \E i \in 1..Len(cs) : cs[i] # " "

\* strain and description are the last token and the tokens before it
TokensParsed(cs) ==
    HasToken(Remainder(cs)) =>
        /\ strain_name # <<>>
        /\ \A i \in 1..Len(strain_name) : strain_name[i] # " "
        /\ \/ product_description = <<>> /\ Squeezed(Remainder(cs)) = strain_name
           \/ /\ product_description # <<>>
              /\ Squeezed(Remainder(cs)) = product_description \o <<" ">> \o strain_name

\* as stated: the approval number is the text before the colon as it stands
C24_ParseProductNameVerbatim ==
    name_parsed =>
        /\ approval_number = IF Find(product_name_arg, ":") = 0 THEN NA
                             ELSE BeforeColon(product_name_arg)
        /\ TokensParsed(product_name_arg)

\* amended: the approval number is the text before the first colon without its
\* surrounding whitespace; a remainder without a token gives the strain "N/A" and
\* the remainder, stripped when it followed a colon, as the description
C24_ParseProductName ==
    name_parsed =>
        /\ approval_number = IF Find(product_name_arg, ":") = 0 THEN NA
                             ELSE strip(BeforeColon(product_name_arg))
        /\ TokensParsed(product_name_arg)
        /\ ~HasToken(Remainder(product_name_arg)) =>
              /\ strain_name = NA
              /\ product_description = IF Find(product_name_arg, ":") = 0
                                       THEN product_name_arg ELSE <<>>
        /\ product_name_arg = PremiumOGKush =>
              /\ approval_number = <<"A", "B", "-", "1", "0", "0">>
              /\ product_description = <<"P", "r", "e", "m", "i", "u", "m", " ", "O", "G">>
              /\ strain_name = <<"K", "u", "s", "h">>

\* a name with a colon after a padded approval number, two colons and two tokens
C24_Witness ==
    /\ name_parsed
    /\ product_name_arg = <<"A", " ", ":", ":">>
    /\ approval_number = <<"A">>
    /\ strain_name = <<":">>

-----------------------------------------------------------------------------
(* C25: a record whose type name matches neither reference list has no row in
   the potency table and is not in the aroma list, and still counts for the
   summary: when it is the first record whose date is valid, its date is the
   test date and the expiration date is that date plus one year. *)

Unclassified(r) == ~is_cannabinoid(r) /\ ~is_terpene(r)

FirstWithValidDate(i) ==
    /\ ParsesAsDate(result_records[i].TestPerformedDate)
    /\ \A j \in 1..(i - 1) : ~ParsesAsDate(result_records[j].TestPerformedDate)

C25_UnclassifiedRecordCounts ==
    {"cannabinoids_table", "terpenes", "dates"} \subseteq derived =>
        \A i \in 1..Len(result_records) :
            LET r == result_records[i] IN
            Unclassified(r) =>
                /\ \A k \in 1..Len(terpenes_data) : terpenes_data[k] # r
                /\ \A k \in 1..Len(cannabinoids_table) :
                      cannabinoids_table[k].test_type # simplify_cannabinoid_name(r.TestTypeName)
                /\ FirstWithValidDate(i) =>
                      /\ test_date = r.TestPerformedDate
                      /\ expiration_date = StrOf(<<"0", "3", "/", "1", "0", "/", "2", "0", "2", "5">>)

-----------------------------------------------------------------------------
(* C28: in every record written by the export, LicenseSelected is the license
   the search was issued with: FullPackageTag is a label under the prefix of
   LicenseSelected, made by a search issued with that license, and UnitWeight
   is one of the weights of that license, whenever the user changes the
   license selector. *)

C28_ExportLicenseConsistent ==
    exported # <<>> =>
        LET rec == Val(exported) IN
        /\ rec.LicenseSelected \in Licenses
        /\ rec.FullPackageTag \in SearchLabels(rec.LicenseSelected)
        /\ \E w \in 1..Len(workers) :
              /\ workers[w].license_code = rec.LicenseSelected
              /\ workers[w].full_label = rec.FullPackageTag
        /\ rec.UnitWeight \in UNIT_WEIGHTS[rec.LicenseSelected]

-----------------------------------------------------------------------------
(* C27: every search that starts a worker comes to handle_error or worker_done:
   the busy indicator, shown when the worker is started, is hidden in the end,
   and the thread of the search quits in the end, on every way a run can end,
   the retry budget running out included. (Nothing is asked of a process that
   was aborted, nor of the thread of a search that a later search replaced.) *)

SearchStarted(w) == Len(workers) >= w
ThreadQuit(w) == Len(workers) >= w /\ ~workers[w].thread_running
Replaced(w) == Len(workers) > w

C27_SearchCompletes ==
    /\ [](progress_visible => <>(~progress_visible \/ crashed))
    /\ \A w \in 1..MaxSearches :
          [](SearchStarted(w) => <>(ThreadQuit(w) \/ Replaced(w) \/ crashed))

====
